---- MODULE Spec2Model ----
(***************************************************************************)
(* vk-mem-3-erupt: the Rust binding (src/src/lib.rs) over the device-memory *)
(* suballocation engine.  The binding's functions are modelled from their  *)
(* code; the engine they call through ffi:: is not part of src/ and is      *)
(* modelled from the design document (the vma* operators below).           *)
(***************************************************************************)
EXTENDS Integers, Sequences, FiniteSets, TLC

\* ------------------------------------------------------------------ bounds
\* Allocation handles a caller may hold at once.
MaxAllocations == 3
\* Allocations the caller of the wide specifications holds at once.
MaxHeld == 2
\* Native memory objects the device can provide at once.
MaxBlocks == 2
\* Outstanding map_memory calls a caller keeps on one allocation.
MaxMapCount == 2
\* Calls the history of allocations and frees goes back.
MaxTrace == 4
\* Calls of Allocator::destroy a caller makes before the allocator is dropped.
MaxDestroys == 2

\* Size of a native block, in allocation units.
BlockSize == 3
\* MemoryRequirements a caller asks for: <<size, alignment>>.
Requests == {<<1, 1>>, <<2, 1>>, <<1, 2>>, <<2, 2>>}
Strategies == {"MinOffset", "BestFit", "FirstFit"}
PoolMinCounts == {0, 1, 2}
PoolMaxCounts == {0, 1}
PassByteLimits == {0, 2}
PassCountLimits == {0, 1}
\* memory_type_index a caller gives its custom pool; default allocations get type 0.
PoolMemoryTypes == {1}
\* AllocatorCreateInfo::heap_size_limits a caller gives for the heap.
HeapLimits == {4, 6}

\* ------------------------------------------------------------- constants
\* std::ptr::null_mut(): the null handle of Allocation, AllocatorPool, context.
NullHandle == 0
\* The default BlockList (AllocationCreateInfo::pool == None).
DefaultPool == 0
\* The one custom pool the model lets a caller create.
CustomPool == 1
\* ffi::VmaDefragmentationMoveOperation values.
OP_COPY == 0
OP_IGNORE == 1
OP_DESTROY == 2

PoolIds == {DefaultPool, CustomPool}
BlockIds == 1..MaxBlocks
UserHandles == 1..MaxAllocations
\* Temporary destination allocation of move i of the running pass.
TmpHandle(i) == MaxAllocations + i
Handles == 1..(2 * MaxAllocations)

VARIABLES
    pools,       \* engine: PoolIds -> BlockList record
    blocks,      \* engine: BlockIds -> Block record
    allocs,      \* engine: Handles -> Allocation record
    ctx,         \* engine: the defragmentation context
    engineMoves, \* engine: the pMoves array of the running pass
    context,     \* caller: DefragmentationContext.internal
    passInfo,    \* caller: DefragmentationPassMoveInfo.moves
    mapCalls,    \* history: successful map_memory minus unmap_memory per handle
    born,        \* history: size and memory type each allocation was created with
    runLog,      \* history: the scope at begin_defragmentation and the Copy moves since
    trace,       \* history: the latest allocate_memory / free_memory calls in a row
    allocator,   \* the AllocatorCreateInfo given to new, and the engine's heap limit
    ffi,         \* history: the native calls the latest operation made, with results
    threads,     \* caller threads inside map_memory / unmap_memory: position, locals
    passLog,     \* history: what the last end_defragmentation_pass committed
    ret          \* the binding's last return value

vars == <<pools, blocks, allocs, ctx, engineMoves, context, passInfo,
          mapCalls, born, runLog, trace, allocator, ffi, threads, passLog, ret>>

\* ---------------------------------------------------------------- values
DeadAlloc ==
    [live |-> FALSE, tmp |-> FALSE, pool |-> DefaultPool, block |-> NullHandle,
     offset |-> 0, size |-> 0, alignment |-> 1, mapCount |-> 0,
     persistent |-> FALSE, memoryType |-> 0, dedicated |-> FALSE]

\* VmaStatistics of nothing.
NoStatistics ==
    [allocationCount |-> 0, allocationBytes |-> 0, unusedRangeCount |-> 0,
     unusedBytes |-> 0]

DeadBlock ==
    [live |-> FALSE, pool |-> DefaultPool, free |-> {}, mapCount |-> 0,
     mapped |-> FALSE, stat |-> NoStatistics]

\* AllocatorPoolCreateFlags: LINEAR_ALGORITHM set or not.
NoPoolFlags == [linear |-> FALSE]

DeadPool ==
    [live |-> FALSE, minBlockCount |-> 0, maxBlockCount |-> 0, blocks |-> <<>>,
     memoryTypeIndex |-> 0, linear |-> FALSE,
     info |-> [memory_type_index |-> 0, flags |-> NoPoolFlags, min_block_count |-> 0,
               max_block_count |-> 0]]

NoBirth == [size |-> 0, memoryType |-> 0]

\* ffi::VmaDefragmentationStats::default()
NoStats ==
    [bytesMoved |-> 0, bytesFreed |-> 0, allocationsMoved |-> 0,
     deviceMemoryBlocksFreed |-> 0]

NoTrace == [depth |-> 0, ops |-> <<>>]

NoRun ==
    [pool |-> DefaultPool, bytesAtBegin |-> 0, blocksAtBegin |-> 0,
     emptyAtBegin |-> 0, copies |-> 0, copiedBytes |-> 0, allCopy |-> TRUE]

IdleCtx ==
    [state |-> "Idle", pool |-> NullHandle, maxBytesPerPass |-> 0,
     maxAllocationsPerPass |-> 0, stats |-> NoStats,
     info |-> [pool |-> <<>>, max_bytes_per_pass |-> 0,
               max_allocations_per_pass |-> 0]]

NoLog ==
    [list |-> <<>>, before |-> <<>>, moves |-> <<>>, countBefore |-> 0,
     pool |-> DefaultPool, result |-> "none"]

Region(o, s) == [offset |-> o, size |-> s]

\* Option<T>
None == <<>>
Some(x) == <<x>>

\* ------------------------------------------------------ Result<T> values
Ok(op, v) == [op |-> op, ok |-> TRUE, value |-> v, error |-> "SUCCESS"]
Err(op, e) == [op |-> op, ok |-> FALSE, value |-> "none", error |-> e]

\* fn ffi_to_result: wraps the raw VkResult in erupt::vk::Result, unchanged.
ffi_to_result(result) == result

\* ------------------------------------------------- engine: region ledger
AlignUp(x, a) == ((x + a - 1) \div a) * a

Fits(r, size, alignment) ==
    AlignUp(r.offset, alignment) + size <= r.offset + r.size

\* The free region a request is placed in, by strategy.
SelectRegion(free, size, alignment, strategy) ==
    LET cands == {r \in free : Fits(r, size, alignment)}
    IN  IF strategy = "BestFit"
        THEN CHOOSE r \in cands : \A q \in cands :
                 r.size < q.size \/ (r.size = q.size /\ r.offset <= q.offset)
        ELSE CHOOSE r \in cands : \A q \in cands : r.offset <= q.offset

HasFit(free, size, alignment) == \E r \in free : Fits(r, size, alignment)

\* Take [o, o+size) out of free region r: what is left before and after stays free.
Carve(free, r, o, size) ==
    (free \ {r})
    \cup (IF o > r.offset THEN {Region(r.offset, o - r.offset)} ELSE {})
    \cup (IF o + size < r.offset + r.size
          THEN {Region(o + size, r.offset + r.size - (o + size))} ELSE {})

\* Return [o, o+size) to the ledger, merging with the free neighbours.
Release(free, o, size) ==
    LET prev == {r \in free : r.offset + r.size = o}
        next == {r \in free : r.offset = o + size}
        lo == IF prev = {} THEN o ELSE (CHOOSE r \in prev : TRUE).offset
        hi == IF next = {} THEN o + size
              ELSE LET n == CHOOSE r \in next : TRUE IN n.offset + n.size
    IN  (free \ (prev \cup next)) \cup {Region(lo, hi - lo)}

\* The counters of a block after [o, o+size) was taken out of its free region r:
\* one allocation more, the region gone, what is left before and after counted.
StatTaken(stat, r, o, size) ==
    [allocationCount |-> stat.allocationCount + 1,
     allocationBytes |-> stat.allocationBytes + size,
     unusedRangeCount |-> stat.unusedRangeCount - 1
                            + (IF o > r.offset THEN 1 ELSE 0)
                            + (IF o + size < r.offset + r.size THEN 1 ELSE 0),
     unusedBytes |-> stat.unusedBytes - size]

\* The counters of a block after [o, o+size) returned to its ledger `free`: one
\* allocation less, one region more, less the free neighbours it merged with.
StatGiven(stat, free, o, size) ==
    [allocationCount |-> stat.allocationCount - 1,
     allocationBytes |-> stat.allocationBytes - size,
     unusedRangeCount |-> stat.unusedRangeCount + 1
                            - (IF \E r \in free : r.offset + r.size = o THEN 1 ELSE 0)
                            - (IF \E r \in free : r.offset = o + size THEN 1 ELSE 0),
     unusedBytes |-> stat.unusedBytes + size]

\* ---------------------------------------------------- engine: block list
FreeBlockIds(bl) == {b \in BlockIds : ~bl[b].live}
LowestOf(S) == CHOOSE x \in S : \A y \in S : x <= y

NewBlock(p) ==
    [live |-> TRUE, pool |-> p, free |-> {Region(0, BlockSize)}, mapCount |-> 0,
     mapped |-> FALSE,
     stat |-> [NoStatistics EXCEPT !.unusedRangeCount = 1, !.unusedBytes = BlockSize]]

IsEmpty(blk) == blk.free = {Region(0, BlockSize)}

RemoveAt(s, i) == SubSeq(s, 1, i - 1) \o SubSeq(s, i + 1, Len(s))

\* Position in sequence s of the first block with room for the request; 0 when none.
FirstFitting(s, bl, size, alignment) ==
    LET I == {i \in 1..Len(s) : HasFit(bl[s[i]].free, size, alignment)}
    IN  IF I = {} THEN 0 ELSE LowestOf(I)

\* try_shrink: release empty blocks, last first, while the count exceeds the minimum.
RECURSIVE Trim(_, _, _)
Trim(pl, bl, p) ==
    LET s == pl[p].blocks
        I == {i \in 1..Len(s) : IsEmpty(bl[s[i]])}
    IN  IF I = {} \/ Len(s) <= pl[p].minBlockCount
        THEN [pools |-> pl, blocks |-> bl, freed |-> 0]
        ELSE LET i == CHOOSE x \in I : \A y \in I : x >= y
                 r == Trim([pl EXCEPT ![p].blocks = RemoveAt(s, i)],
                           [bl EXCEPT ![s[i]] = DeadBlock], p)
             IN  [r EXCEPT !.freed = @ + 1]

\* --------------------------------------------------- engine: the heap
\* A bit of a flags word: set when the record has it and it is TRUE.
HasFlag(flags, name) == name \in DOMAIN flags /\ flags[name]

\* Bytes of native memory taken from the heap: every block of every BlockList and
\* every dedicated allocation.
RECURSIVE DedicatedBytes(_, _)
DedicatedBytes(al, H) ==
    IF H = {} THEN 0
    ELSE LET h == CHOOSE x \in H : TRUE
         IN  (IF al[h].live /\ al[h].dedicated THEN al[h].size ELSE 0)
                 + DedicatedBytes(al, H \ {h})

NativeBytes(bl, al) ==
    BlockSize * Cardinality({b \in BlockIds : bl[b].live}) + DedicatedBytes(al, Handles)

\* VmaAllocatorCreateInfo::pHeapSizeLimit: null, or the limit of the heap; the
\* engine refuses a native allocation that would take the heap past its limit.
HeapAllows(heap, bl, al, bytes) ==
    heap = None \/ NativeBytes(bl, al) + bytes <= heap[1]

\* The native memory object of a dedicated allocation.
DedicatedMemory(h) == MaxBlocks + h

\* --------------------------------------------------- engine: pools (ffi)
\* vmaCreatePool: a BlockList with its limits and min_block_count blocks preallocated.
vmaCreatePool(pl, bl, al, heap, createInfo) ==
    LET minC == createInfo.minBlockCount
        maxC == createInfo.maxBlockCount
        slots == FreeBlockIds(bl)
        RECURSIVE Grow(_, _, _)
        Grow(s, b, n) ==
            IF n = 0 THEN [seq |-> s, blocks |-> b]
            ELSE LET id == LowestOf(FreeBlockIds(b))
                 IN  Grow(Append(s, id), [b EXCEPT ![id] = NewBlock(CustomPool)], n - 1)
    IN  IF maxC /= 0 /\ minC > maxC
        THEN [result |-> "ERROR_INITIALIZATION_FAILED", pools |-> pl, blocks |-> bl,
              pool |-> NullHandle]
        ELSE IF Cardinality(slots) < minC \/ ~HeapAllows(heap, bl, al, minC * BlockSize)
        THEN [result |-> "ERROR_OUT_OF_DEVICE_MEMORY", pools |-> pl, blocks |-> bl,
              pool |-> NullHandle]
        ELSE LET g == Grow(<<>>, bl, minC)
             IN  [result |-> "SUCCESS",
                  pools |-> [pl EXCEPT ![CustomPool] =
                      [live |-> TRUE, minBlockCount |-> minC, maxBlockCount |-> maxC,
                       blocks |-> g.seq, memoryTypeIndex |-> createInfo.memoryTypeIndex,
                       linear |-> createInfo.flags.linear,
                       info |-> DeadPool.info]],
                  blocks |-> g.blocks, pool |-> CustomPool]

\* vmaDestroyPool: releases every block of the pool.
vmaDestroyPool(pl, bl, p) ==
    [pools |-> [pl EXCEPT ![p] = DeadPool],
     blocks |-> [b \in BlockIds |->
                    IF bl[b].live /\ bl[b].pool = p THEN DeadBlock ELSE bl[b]]]

\* --------------------------------------------- engine: allocate and free
\* Block::Map(count): the native map happens when the count leaves zero.
BlockMap(blk, count) ==
    IF count = 0 THEN blk
    ELSE [blk EXCEPT !.mapCount = @ + count, !.mapped = TRUE]

\* Block::Unmap(count): the native unmap happens when the count reaches zero.
BlockUnmap(blk, count) ==
    IF count = 0 THEN blk
    ELSE [blk EXCEPT !.mapCount = @ - count,
                     !.mapped = IF blk.mapCount - count = 0 THEN FALSE ELSE @]

\* Place a request in block b of the ledger.
PlaceIn(bl, b, F, size, alignment, strategy) ==
    LET r == SelectRegion(F, size, alignment, strategy)
        o == AlignUp(r.offset, alignment)
    IN  [blocks |-> [bl EXCEPT ![b].free = Carve(bl[b].free, r, o, size),
                               ![b].stat = StatTaken(@, r, o, size)],
         block |-> b, offset |-> o]

\* The free regions a request may be placed in: under the linear algorithm only
\* the region after the last allocation of the block.
Usable(linear, F) ==
    IF linear THEN {r \in F : r.offset + r.size = BlockSize} ELSE F

\* vmaAllocateMemory: find a fit in the pool's blocks, in order; else grow.
vmaAllocateMemory(pl, bl, al, h, p, size, alignment, strategy, flags, nativeOk, heap) ==
    LET s == pl[p].blocks
        usable == [b \in BlockIds |-> Usable(pl[p].linear, bl[b].free)]
        i == FirstFitting(s, [b \in BlockIds |-> [bl[b] EXCEPT !.free = usable[b]]],
                          size, alignment)
        fail(code) == [result |-> code, pools |-> pl, blocks |-> bl, allocs |-> al,
                       allocation |-> NullHandle]
        finish(pl2, placed) ==
            LET blk == placed.blocks[placed.block]
                needMap == flags.mapped /\ blk.mapCount = 0
            IN  IF needMap /\ ~nativeOk
                THEN fail("ERROR_MEMORY_MAP_FAILED")
                ELSE [result |-> "SUCCESS", pools |-> pl2,
                      blocks |-> [placed.blocks EXCEPT ![placed.block] =
                                     BlockMap(blk, IF flags.mapped THEN 1 ELSE 0)],
                      allocs |-> [al EXCEPT ![h] =
                          [live |-> TRUE, tmp |-> FALSE, pool |-> p,
                           block |-> placed.block, offset |-> placed.offset,
                           size |-> size, alignment |-> alignment, mapCount |-> 0,
                           persistent |-> flags.mapped,
                           memoryType |-> pl[p].memoryTypeIndex,
                           dedicated |-> FALSE]],
                      allocation |-> h]
    IN  IF HasFlag(flags, "dedicated")
        THEN IF ~nativeOk \/ ~HeapAllows(heap, bl, al, size)
             THEN fail("ERROR_OUT_OF_DEVICE_MEMORY")
             ELSE [result |-> "SUCCESS", pools |-> pl, blocks |-> bl,
                   allocs |-> [al EXCEPT ![h] =
                       [DeadAlloc EXCEPT !.live = TRUE, !.pool = p, !.size = size,
                                         !.alignment = alignment,
                                         !.memoryType = pl[p].memoryTypeIndex,
                                         !.dedicated = TRUE]],
                   allocation |-> h]
        ELSE IF i /= 0
        THEN finish(pl, PlaceIn(bl, s[i], usable[s[i]], size, alignment, strategy))
        ELSE IF flags.neverAllocate
                \/ (pl[p].maxBlockCount /= 0 /\ Len(s) >= pl[p].maxBlockCount)
        THEN fail("ERROR_OUT_OF_DEVICE_MEMORY")
        ELSE IF FreeBlockIds(bl) = {} \/ ~nativeOk
                \/ ~HeapAllows(heap, bl, al, BlockSize)
        THEN fail("ERROR_OUT_OF_DEVICE_MEMORY")
        ELSE LET id == LowestOf(FreeBlockIds(bl))
                 bl2 == [bl EXCEPT ![id] = NewBlock(p)]
             IN  finish([pl EXCEPT ![p].blocks = Append(s, id)],
                        PlaceIn(bl2, id, bl2[id].free, size, alignment, strategy))

\* BlockList::Free: the region returns to the ledger; a persistent mapping is dropped.
FreeRegionOf(bl, a) ==
    [bl EXCEPT ![a.block] =
        [BlockUnmap(bl[a.block], IF a.persistent THEN 1 ELSE 0)
            EXCEPT !.free = Release(bl[a.block].free, a.offset, a.size),
                   !.stat = StatGiven(@, bl[a.block].free, a.offset, a.size)]]

\* vmaFreeMemory: free the region; an emptied block may be released now or later.
vmaFreeMemory(pl, bl, al, h, trimNow) ==
    LET a == al[h]
        bl2 == IF a.dedicated THEN bl ELSE FreeRegionOf(bl, a)
        t == IF trimNow THEN Trim(pl, bl2, a.pool)
             ELSE [pools |-> pl, blocks |-> bl2, freed |-> 0]
    IN  [pools |-> t.pools, blocks |-> t.blocks, allocs |-> [al EXCEPT ![h] = DeadAlloc]]

\* vmaMapMemory: the allocation's and its block's counts go up; first map is native.
vmaMapMemory(bl, al, h, nativeOk) ==
    LET a == al[h]
    IN  IF bl[a.block].mapCount = 0 /\ ~nativeOk
        THEN [result |-> "ERROR_MEMORY_MAP_FAILED", blocks |-> bl, allocs |-> al,
              mapped |-> FALSE]
        ELSE [result |-> "SUCCESS",
              blocks |-> [bl EXCEPT ![a.block] = BlockMap(@, 1)],
              allocs |-> [al EXCEPT ![h].mapCount = @ + 1],
              mapped |-> TRUE]

\* vmaUnmapMemory: the counts go down; the last unmap is native.
vmaUnmapMemory(bl, al, h) ==
    [blocks |-> [bl EXCEPT ![al[h].block] = BlockUnmap(@, 1)],
     allocs |-> [al EXCEPT ![h].mapCount = @ - 1]]

\* vmaGetAllocationInfo: the VmaAllocationInfo of a live allocation.
vmaGetAllocationInfo(bl, al, h) ==
    [deviceMemory |-> IF al[h].dedicated THEN DedicatedMemory(h) ELSE al[h].block,
     offset |-> al[h].offset, size |-> al[h].size,
     pMappedData |-> al[h].mapCount > 0 \/ al[h].persistent,
     memoryType |-> al[h].memoryType]

\* The allocations of a batch made one after another until one fails; okBlocks is
\* the number of native block allocations the device still grants.
RECURSIVE AllocatePages(_, _, _, _, _, _, _, _, _, _)
AllocatePages(pl, bl, al, hs, p, size, alignment, flags, okBlocks, heap) ==
    IF hs = <<>>
    THEN [result |-> "SUCCESS", pools |-> pl, blocks |-> bl, allocs |-> al]
    ELSE LET r == vmaAllocateMemory(pl, bl, al, Head(hs), p, size, alignment,
                      flags.strategy, flags, okBlocks > 0, heap)
             grown == Len(r.pools[p].blocks) - Len(pl[p].blocks)
         IN  IF r.result /= "SUCCESS"
             THEN [result |-> r.result, pools |-> pl, blocks |-> bl, allocs |-> al]
             ELSE AllocatePages(r.pools, r.blocks, r.allocs, Tail(hs), p, size,
                                alignment, flags, okBlocks - grown, heap)

\* The allocations hs of a failed batch freed again, the last made first.
RECURSIVE FreePages(_, _, _, _, _)
FreePages(pl, bl, al, hs, trimNow) ==
    IF hs = <<>> THEN [pools |-> pl, blocks |-> bl, allocs |-> al]
    ELSE LET h == hs[Len(hs)]
             r == IF al[h].live THEN vmaFreeMemory(pl, bl, al, h, trimNow)
                  ELSE [pools |-> pl, blocks |-> bl, allocs |-> al]
         IN  FreePages(r.pools, r.blocks, r.allocs, SubSeq(hs, 1, Len(hs) - 1), trimNow)

\* vmaAllocateMemoryPages: all the allocations of the batch, or none of them.
vmaAllocateMemoryPages(pl, bl, al, hs, p, size, alignment, flags, okBlocks, trimNow, heap) ==
    LET r == AllocatePages(pl, bl, al, hs, p, size, alignment, flags, okBlocks, heap)
    IN  IF r.result = "SUCCESS"
        THEN [result |-> "SUCCESS", pools |-> r.pools, blocks |-> r.blocks,
              allocs |-> r.allocs, allocations |-> hs,
              infos |-> [i \in 1..Len(hs) |->
                            vmaGetAllocationInfo(r.blocks, r.allocs, hs[i])]]
        ELSE LET f == FreePages(r.pools, r.blocks, r.allocs, hs, trimNow)
             IN  [result |-> r.result, pools |-> f.pools, blocks |-> f.blocks,
                  allocs |-> f.allocs,
                  allocations |-> [i \in 1..Len(hs) |-> NullHandle],
                  infos |-> <<>>]

\* ================================================== the binding (lib.rs)
\* match result { SUCCESS => Ok(value), _ => Err(Error::vulkan(result)) }
\* One native call and the result it gave ("void" when it returns none).
Native(fn, result) == <<[fn |-> fn, result |-> result]>>

\* Fault variant of the match: every failure is reported as ERROR_UNKNOWN.
MatchSuccess_CodeReplaced(op, result, value) ==
    IF result = "SUCCESS" THEN Ok(op, value) ELSE Err(op, "ERROR_UNKNOWN")

MatchSuccess(op, result, value) ==
    IF result = "SUCCESS" THEN Ok(op, value) ELSE Err(op, result)

\* The free-region ledger of BlockList p: its blocks in order and their free regions.
Ledger(pl, bl, p) ==
    [list |-> pl[p].blocks,
     free |-> [b \in BlockIds |->
                  IF bl[b].live /\ bl[b].pool = p THEN bl[b].free ELSE {}]]

\* The history with call r added, the oldest call dropped beyond its depth.
Traced(t, r) ==
    IF t.depth = 0 THEN t
    ELSE [t EXCEPT !.ops = IF Len(@) < t.depth THEN Append(@, r)
                           ELSE Append(Tail(@), r)]

\* The history after a call that is neither an allocation nor a free.
Untraced(t) == [t EXCEPT !.ops = <<>>]

\* Fault variant of pool_create_info_to_ffi: the two counts exchanged.
pool_create_info_to_ffi_Swapped(info) ==
    [memoryTypeIndex |-> info.memory_type_index, flags |-> info.flags,
     minBlockCount |-> info.max_block_count, maxBlockCount |-> info.min_block_count]

\* Fault variant of pool_create_info_to_ffi: the flags are not passed on.
pool_create_info_to_ffi_NoFlags(info) ==
    [memoryTypeIndex |-> info.memory_type_index, flags |-> NoPoolFlags,
     minBlockCount |-> info.min_block_count, maxBlockCount |-> info.max_block_count]

\* fn pool_create_info_to_ffi
pool_create_info_to_ffi(info) ==
    [memoryTypeIndex |-> info.memory_type_index, flags |-> info.flags,
     minBlockCount |-> info.min_block_count, maxBlockCount |-> info.max_block_count]

\* Fault variant of allocation_create_info_to_ffi: NEVER_ALLOCATE is not passed on.
allocation_create_info_to_ffi_NeverAllocateDropped(info) ==
    [flags |-> [info.flags EXCEPT !.neverAllocate = FALSE],
     pool |-> IF info.pool = None THEN NullHandle ELSE info.pool[1]]

\* fn allocation_create_info_to_ffi
allocation_create_info_to_ffi(info) ==
    [flags |-> info.flags,
     pool |-> IF info.pool = None THEN NullHandle ELSE info.pool[1]]

\* Fault variant of get_offset: reads the size field.
get_offset_ReadsSize(info) == info.size

\* Fault variant of get_size: reads the offset field.
get_size_ReadsOffset(info) == info.offset

\* AllocationInfo accessors (`as usize` of a 64-bit VkDeviceSize keeps the value)
get_memory_type(info) == info.memoryType
get_device_memory(info) == info.deviceMemory
get_offset(info) == info.offset
get_size(info) == info.size

\* begin_defragmentation's warning: between begin and end the caller makes, frees,
\* maps no allocation (the engine may hold its locks; in-scope allocations are moving).
ScopeBusy(p) ==
    ctx.state \in {"Began", "PassActive", "PassComplete"}

LiveIn(al, p) == {h \in Handles : al[h].live /\ al[h].pool = p}

HandlesOn(al, b) == {h \in Handles : al[h].live /\ al[h].block = b}

\* Sum of get_size over the allocations H, as get_allocation_info reports them.
RECURSIVE SizeSum(_, _)
SizeSum(al, H) ==
    IF H = {} THEN 0
    ELSE LET h == CHOOSE x \in H : TRUE
         IN  get_size([size |-> al[h].size, offset |-> al[h].offset])
                 + SizeSum(al, H \ {h})

\* Allocator::create_pool
create_pool(pool_info) ==
    /\ ~pools[CustomPool].live
    /\ ~ScopeBusy(CustomPool)
    /\ \E r \in {vmaCreatePool(pools, blocks, allocs, allocator.heap,
                             pool_create_info_to_ffi(pool_info))} :
       LET result == ffi_to_result(r.result)
       IN  /\ pools' = IF r.result = "SUCCESS"
                       THEN [r.pools EXCEPT ![CustomPool].info = pool_info]
                       ELSE r.pools
           /\ blocks' = r.blocks
           /\ ret' = MatchSuccess("create_pool", result, r.pool)
           /\ UNCHANGED threads
           /\ ffi' = Native("vmaCreatePool", r.result)
    /\ UNCHANGED allocator
    /\ trace' = Untraced(trace)
    /\ passLog' = NoLog
    /\ runLog' = NoRun
    /\ UNCHANGED <<allocs, ctx, engineMoves, context, passInfo, mapCalls, born>>

\* Allocator::destroy_pool
destroy_pool ==
    /\ pools[CustomPool].live
    /\ LiveIn(allocs, CustomPool) = {}
    /\ ~ScopeBusy(CustomPool)
    /\ \E r \in {vmaDestroyPool(pools, blocks, CustomPool)} :
           /\ pools' = r.pools
           /\ blocks' = r.blocks
    /\ ret' = Ok("destroy_pool", "unit")
    /\ UNCHANGED threads
    /\ ffi' = Native("vmaDestroyPool", "void")
    /\ UNCHANGED allocator
    /\ trace' = Untraced(trace)
    /\ passLog' = NoLog
    /\ runLog' = NoRun
    /\ UNCHANGED <<allocs, ctx, engineMoves, context, passInfo, mapCalls, born>>

\* Allocator::allocate_memory
allocate_memory(size, alignment, allocation_info, nativeOk) ==
    LET create_info == allocation_create_info_to_ffi(allocation_info)
        free == {h \in UserHandles : ~allocs[h].live}
    IN  /\ free /= {}
        /\ pools[create_info.pool].live
        /\ ~ScopeBusy(create_info.pool)
        /\ \E r \in {vmaAllocateMemory(pools, blocks, allocs, LowestOf(free),
                        create_info.pool, size, alignment, create_info.flags.strategy,
                        create_info.flags, nativeOk, allocator.heap)} :
           LET result == ffi_to_result(r.result)
           IN  /\ pools' = r.pools
               /\ blocks' = r.blocks
               /\ allocs' = r.allocs
               /\ ret' = MatchSuccess("allocate_memory", result, r.allocation)
               /\ UNCHANGED threads
               /\ ffi' = Native("vmaAllocateMemory", r.result)
               /\ born' = IF result = "SUCCESS"
                          THEN LET info == vmaGetAllocationInfo(r.blocks, r.allocs,
                                                                r.allocation)
                               IN  [born EXCEPT ![r.allocation] =
                                       [size |-> get_size(info),
                                        memoryType |-> get_memory_type(info)]]
                          ELSE born
               /\ UNCHANGED allocator
               /\ trace' = Traced(trace,
                     LET info == vmaGetAllocationInfo(r.blocks, r.allocs, r.allocation)
                         ok == result = "SUCCESS"
                     IN  [op |-> "allocate_memory", pool |-> create_info.pool,
                          size |-> size, alignment |-> alignment,
                          flags |-> allocation_info.flags, ok |-> ok, error |-> result,
                          nativeOk |-> nativeOk, native |-> NativeBytes(blocks, allocs),
                          block |-> IF ok THEN get_device_memory(info) ELSE 0,
                          offset |-> IF ok THEN get_offset(info) ELSE 0,
                          before |-> Ledger(pools, blocks, create_info.pool),
                          after |-> Ledger(r.pools, r.blocks, create_info.pool)])
        /\ passLog' = NoLog
        /\ runLog' = NoRun
        /\ UNCHANGED <<ctx, engineMoves, context, passInfo, mapCalls>>

\* Fault variant of the returned pairs: the infos are taken in reverse order.
PagesResult_InfosReversed(result, allocations, infos) ==
    IF result = "SUCCESS"
    THEN Ok("allocate_memory_pages",
            [i \in 1..Len(allocations) |->
                [allocation |-> allocations[i],
                 info |-> infos[Len(infos) + 1 - i]]])
    ELSE Err("allocate_memory_pages", result)

\* Allocator::allocate_memory_pages: the match on the engine's result, the
\* allocations zipped with their infos.
PagesResult(result, allocations, infos) ==
    IF result = "SUCCESS"
    THEN Ok("allocate_memory_pages",
            [i \in 1..Len(allocations) |->
                [allocation |-> allocations[i], info |-> infos[i]]])
    ELSE Err("allocate_memory_pages", result)

\* Allocator::allocate_memory_pages
allocate_memory_pages(size, alignment, allocation_info, allocation_count, okBlocks, trimNow) ==
    LET create_info == allocation_create_info_to_ffi(allocation_info)
        free == {h \in UserHandles : ~allocs[h].live}
        RECURSIVE Lowest(_, _)
        Lowest(S, n) == IF n = 0 THEN <<>>
                        ELSE <<LowestOf(S)>> \o Lowest(S \ {LowestOf(S)}, n - 1)
    IN  /\ allocation_count <= Cardinality(free)
        /\ pools[create_info.pool].live
        /\ ~ScopeBusy(create_info.pool)
        /\ \E r \in {vmaAllocateMemoryPages(pools, blocks, allocs,
                        Lowest(free, allocation_count), create_info.pool, size,
                        alignment, create_info.flags, okBlocks, trimNow,
                        allocator.heap)} :
           LET result == ffi_to_result(r.result)
           IN  /\ pools' = r.pools
               /\ blocks' = r.blocks
               /\ allocs' = r.allocs
               /\ ret' = PagesResult(result, r.allocations, r.infos)
               /\ UNCHANGED threads
               /\ ffi' = Native("vmaAllocateMemoryPages", r.result)
               /\ born' = [h \in UserHandles |->
                              IF r.allocs[h].live /\ ~allocs[h].live
                              THEN LET info == vmaGetAllocationInfo(r.blocks, r.allocs, h)
                                   IN  [size |-> get_size(info),
                                        memoryType |-> get_memory_type(info)]
                              ELSE born[h]]
               /\ UNCHANGED allocator
               /\ trace' = Traced(trace,
                     [op |-> "allocate_memory_pages", pool |-> create_info.pool,
                      size |-> size, alignment |-> alignment,
                      flags |-> allocation_info.flags, ok |-> result = "SUCCESS",
                      error |-> result, count |-> allocation_count,
                      held |-> LiveIn(allocs, create_info.pool),
                      before |-> Ledger(pools, blocks, create_info.pool),
                      after |-> Ledger(r.pools, r.blocks, create_info.pool)])
        /\ passLog' = NoLog
        /\ runLog' = NoRun
        /\ UNCHANGED <<ctx, engineMoves, context, passInfo, mapCalls>>

\* Fault variant of free_memory: another live allocation is handed to the engine.
free_memory_OtherHandle(allocation, trimNow) ==
    /\ allocs[allocation].live
    /\ mapCalls[allocation] = 0
    /\ ~ScopeBusy(allocs[allocation].pool)
    /\ LET others == {h \in UserHandles : allocs[h].live /\ h /= allocation}
           freed == IF others = {} THEN allocation ELSE LowestOf(others)
       IN  \E r \in {vmaFreeMemory(pools, blocks, allocs, freed, trimNow)} :
           /\ pools' = r.pools
           /\ blocks' = r.blocks
           /\ allocs' = r.allocs
           /\ UNCHANGED allocator
           /\ trace' = Traced(trace,
                 LET info == vmaGetAllocationInfo(blocks, allocs, allocation)
                     pool == allocs[allocation].pool
                 IN  [op |-> "free_memory", pool |-> pool,
                      size |-> get_size(info), alignment |-> allocs[allocation].alignment,
                      flags |-> "none", ok |-> TRUE, error |-> "SUCCESS",
                      block |-> get_device_memory(info), offset |-> get_offset(info),
                      before |-> Ledger(pools, blocks, pool),
                      after |-> Ledger(r.pools, r.blocks, pool)])
           /\ born' = [born EXCEPT ![freed] = NoBirth]
    /\ ret' = Ok("free_memory", "unit")
    /\ UNCHANGED threads
    /\ ffi' = Native("vmaFreeMemory", "void")
    /\ passLog' = NoLog
    /\ runLog' = NoRun
    /\ UNCHANGED <<ctx, engineMoves, context, passInfo, mapCalls>>

\* Allocator::free_memory
free_memory(allocation, trimNow) ==
    /\ allocs[allocation].live
    /\ mapCalls[allocation] = 0
    /\ ~ScopeBusy(allocs[allocation].pool)
    /\ \E r \in {vmaFreeMemory(pools, blocks, allocs, allocation, trimNow)} :
           /\ pools' = r.pools
           /\ blocks' = r.blocks
           /\ allocs' = r.allocs
           /\ UNCHANGED allocator
           /\ trace' = Traced(trace,
                 LET info == vmaGetAllocationInfo(blocks, allocs, allocation)
                     pool == allocs[allocation].pool
                 IN  [op |-> "free_memory", pool |-> pool,
                      size |-> get_size(info), alignment |-> allocs[allocation].alignment,
                      flags |-> "none", ok |-> TRUE, error |-> "SUCCESS",
                      block |-> get_device_memory(info), offset |-> get_offset(info),
                      before |-> Ledger(pools, blocks, pool),
                      after |-> Ledger(r.pools, r.blocks, pool)])
    /\ ret' = Ok("free_memory", "unit")
    /\ UNCHANGED threads
    /\ ffi' = Native("vmaFreeMemory", "void")
    /\ born' = [born EXCEPT ![allocation] = NoBirth]
    /\ passLog' = NoLog
    /\ runLog' = NoRun
    /\ UNCHANGED <<ctx, engineMoves, context, passInfo, mapCalls>>

\* Allocator::map_memory
map_memory(allocation, nativeOk) ==
    /\ allocs[allocation].live
    /\ mapCalls[allocation] < MaxMapCount
    /\ ~ScopeBusy(allocs[allocation].pool)
    /\ \E r \in {vmaMapMemory(blocks, allocs, allocation, nativeOk)} :
       LET result == ffi_to_result(r.result)
       IN  /\ blocks' = r.blocks
           /\ allocs' = r.allocs
           /\ ret' = MatchSuccess("map_memory", result, r.mapped)
           /\ UNCHANGED threads
           /\ ffi' = Native("vmaMapMemory", r.result)
           /\ mapCalls' = IF result = "SUCCESS"
                          THEN [mapCalls EXCEPT ![allocation] = @ + 1]
                          ELSE mapCalls
    /\ UNCHANGED allocator
    /\ trace' = Untraced(trace)
    /\ passLog' = NoLog
    /\ runLog' = NoRun
    /\ UNCHANGED <<pools, ctx, engineMoves, context, passInfo, born>>

\* Fault variant of unmap_memory: returns without forwarding to the engine.
unmap_memory_NotForwarded(allocation) ==
    /\ allocs[allocation].live
    /\ mapCalls[allocation] > 0
    /\ mapCalls' = [mapCalls EXCEPT ![allocation] = @ - 1]
    /\ ret' = Ok("unmap_memory", "unit")
    /\ UNCHANGED threads
    /\ ffi' = <<>>
    /\ UNCHANGED allocator
    /\ trace' = Untraced(trace)
    /\ passLog' = NoLog
    /\ runLog' = NoRun
    /\ UNCHANGED <<pools, blocks, allocs, ctx, engineMoves, context, passInfo, born>>

\* Allocator::unmap_memory
unmap_memory(allocation) ==
    /\ allocs[allocation].live
    /\ mapCalls[allocation] > 0
    /\ ~ScopeBusy(allocs[allocation].pool)
    /\ \E r \in {vmaUnmapMemory(blocks, allocs, allocation)} :
           /\ blocks' = r.blocks
           /\ allocs' = r.allocs
    /\ mapCalls' = [mapCalls EXCEPT ![allocation] = @ - 1]
    /\ ret' = Ok("unmap_memory", "unit")
    /\ UNCHANGED threads
    /\ ffi' = Native("vmaUnmapMemory", "void")
    /\ UNCHANGED allocator
    /\ trace' = Untraced(trace)
    /\ passLog' = NoLog
    /\ runLog' = NoRun
    /\ UNCHANGED <<pools, ctx, engineMoves, context, passInfo, born>>

\* ================================================ engine: defragmentation
PosOf(s, b) == CHOOSE i \in 1..Len(s) : s[i] = b

\* The destination of a move of allocation a: the lowest-address fit (MinOffset)
\* in an earlier block, or at a lower offset of its own block.  <<>> when none.
FindDestination(s, bl, a) ==
    LET pos == PosOf(s, a.block)
        J == {j \in 1..pos :
                 \E r \in bl[s[j]].free :
                     /\ Fits(r, a.size, a.alignment)
                     /\ (j < pos \/ AlignUp(r.offset, a.alignment) < a.offset)}
    IN  IF J = {} THEN <<>>
        ELSE LET j == LowestOf(J)
                 free == IF j < pos THEN bl[s[j]].free
                         ELSE {r \in bl[s[j]].free : r.offset < a.offset}
                 r == SelectRegion(free, a.size, a.alignment, "MinOffset")
             IN  <<[block |-> s[j], region |-> r,
                    offset |-> AlignUp(r.offset, a.alignment)]>>

\* Candidates are visited from the last block and the highest offset downwards.
LastCandidate(s, al, cands) ==
    CHOOSE h \in cands : \A g \in cands :
        \/ PosOf(s, al[h].block) > PosOf(s, al[g].block)
        \/ (al[h].block = al[g].block /\ al[h].offset >= al[g].offset)

\* The moves of one pass, each with its destination reserved, within the budgets
\* (0 = no limit).
RECURSIVE ComputeMoves(_, _, _, _, _)
ComputeMoves(cands, s, maxBytes, maxAllocs, acc) ==
    IF cands = {} \/ (maxAllocs /= 0 /\ Len(acc.moves) >= maxAllocs)
    THEN acc
    ELSE LET h == LastCandidate(s, acc.allocs, cands)
             a == acc.allocs[h]
             d == FindDestination(s, acc.blocks, a)
             rest == cands \ {h}
         IN  IF (maxBytes /= 0 /\ acc.bytes + a.size > maxBytes) \/ d = <<>>
             THEN ComputeMoves(rest, s, maxBytes, maxAllocs, acc)
             ELSE LET tmp == TmpHandle(Len(acc.moves) + 1)
                  IN  ComputeMoves(rest, s, maxBytes, maxAllocs,
                        [moves |-> Append(acc.moves,
                             [operation |-> OP_COPY, srcAllocation |-> h,
                              dstTmpAllocation |-> tmp]),
                         bytes |-> acc.bytes + a.size,
                         blocks |-> [acc.blocks EXCEPT
                             ![d[1].block].free =
                                 Carve(@, d[1].region, d[1].offset, a.size),
                             ![d[1].block].stat =
                                 StatTaken(@, d[1].region, d[1].offset, a.size)],
                         allocs |-> [acc.allocs EXCEPT ![tmp] =
                             [a EXCEPT !.tmp = TRUE, !.block = d[1].block,
                                       !.offset = d[1].offset, !.mapCount = 0,
                                       !.persistent = FALSE]]])

\* vmaBeginDefragmentation: opens a context on one pool or on the default pools.
vmaBeginDefragmentation(c, pl, pInfo) ==
    IF pInfo.pool /= NullHandle /\ pl[pInfo.pool].linear
    THEN [result |-> "ERROR_INVALID_ARGUMENT", ctx |-> c]
    ELSE [result |-> "SUCCESS",
          ctx |-> [c EXCEPT !.state = "Began", !.pool = pInfo.pool,
                            !.maxBytesPerPass = pInfo.maxBytesPerPass,
                            !.maxAllocationsPerPass = pInfo.maxAllocationsPerPass]]

RECURSIVE FreeBytes(_)
FreeBytes(F) ==
    IF F = {} THEN 0
    ELSE LET r == CHOOSE x \in F : TRUE IN r.size + FreeBytes(F \ {r})

\* The blocks of a list ordered for a pass: fullest first, so that allocations
\* leave the emptier blocks; blocks equally full keep the list's order.
RECURSIVE FullestFirst(_, _)
FullestFirst(s, bl) ==
    IF s = <<>> THEN <<>>
    ELSE LET i == CHOOSE x \in 1..Len(s) : \A y \in 1..Len(s) :
                      \/ FreeBytes(bl[s[x]].free) < FreeBytes(bl[s[y]].free)
                      \/ /\ FreeBytes(bl[s[x]].free) = FreeBytes(bl[s[y]].free)
                         /\ x <= y
         IN  <<s[i]>> \o FullestFirst(RemoveAt(s, i), bl)

\* vmaBeginDefragmentationPass: proposes the moves and reserves their destinations.
vmaBeginDefragmentationPass(c, pl, bl, al) ==
    LET s == FullestFirst(pl[c.pool].blocks, bl)
        r == ComputeMoves({h \in UserHandles : /\ al[h].live /\ al[h].pool = c.pool
                                              /\ ~al[h].dedicated}, s,
                 c.maxBytesPerPass, c.maxAllocationsPerPass,
                 [moves |-> <<>>, bytes |-> 0, blocks |-> bl, allocs |-> al])
    IN  IF r.moves = <<>>
        THEN [result |-> "SUCCESS", pMoves |-> <<>>, blocks |-> bl, allocs |-> al]
        ELSE [result |-> "INCOMPLETE", pMoves |-> r.moves, blocks |-> r.blocks,
              allocs |-> r.allocs]

\* One move committed by its operation.
CommitMove(bl, al, m) ==
    LET src == al[m.srcAllocation]
        dst == al[m.dstTmpAllocation]
        maps == src.mapCount + (IF src.persistent THEN 1 ELSE 0)
    IN  IF m.operation = OP_COPY
        THEN LET moved == [bl EXCEPT
                               ![src.block].stat = StatGiven(@, bl[src.block].free,
                                                             src.offset, src.size),
                               ![src.block].free = Release(@, src.offset, src.size)]
                 unm == [moved EXCEPT ![src.block] = BlockUnmap(@, maps)]
             IN  [blocks |-> [unm EXCEPT ![dst.block] = BlockMap(@, maps)],
                  allocs |-> [al EXCEPT
                      ![m.srcAllocation] = [src EXCEPT !.block = dst.block,
                                                       !.offset = dst.offset],
                      ![m.dstTmpAllocation] = DeadAlloc]]
        ELSE IF m.operation = OP_IGNORE
        THEN [blocks |-> FreeRegionOf(bl, dst),
              allocs |-> [al EXCEPT ![m.dstTmpAllocation] = DeadAlloc]]
        ELSE [blocks |-> FreeRegionOf(FreeRegionOf(bl, dst), src),
              allocs |-> [al EXCEPT ![m.srcAllocation] = DeadAlloc,
                                    ![m.dstTmpAllocation] = DeadAlloc]]

\* Moves 1..n committed in order; a native failure at move failAt aborts: the
\* moves before it stay committed, the reservations from it on are released.
RECURSIVE CommitMoves(_, _, _, _, _)
CommitMoves(bl, al, moves, i, failAt) ==
    IF i > Len(moves) THEN [blocks |-> bl, allocs |-> al]
    ELSE LET st == IF failAt /= 0 /\ i >= failAt
                   THEN CommitMove(bl, al, [moves[i] EXCEPT !.operation = OP_IGNORE])
                   ELSE CommitMove(bl, al, moves[i])
         IN  CommitMoves(st.blocks, st.allocs, moves, i + 1, failAt)

\* Bytes of the moves numbered in `copied`.
RECURSIVE MovedBytes(_, _, _)
MovedBytes(al, moves, copied) ==
    IF copied = {} THEN 0
    ELSE LET i == CHOOSE x \in copied : TRUE
         IN  al[moves[i].srcAllocation].size + MovedBytes(al, moves, copied \ {i})

\* vmaEndDefragmentationPass: commits the moves, releases emptied blocks, and tells
\* whether more moves are possible.
vmaEndDefragmentationPass(c, pl, bl, al, moves, failAt) ==
    LET st == CommitMoves(bl, al, moves, 1, failAt)
        t == Trim(pl, st.blocks, c.pool)
        more == vmaBeginDefragmentationPass(c, t.pools, t.blocks, st.allocs)
        copied == {i \in 1..Len(moves) :
                      moves[i].operation = OP_COPY /\ (failAt = 0 \/ i < failAt)}
        stats == [bytesMoved |-> c.stats.bytesMoved + MovedBytes(al, moves, copied),
                  bytesFreed |-> c.stats.bytesFreed + t.freed * BlockSize,
                  allocationsMoved |-> c.stats.allocationsMoved + Cardinality(copied),
                  deviceMemoryBlocksFreed |-> c.stats.deviceMemoryBlocksFreed + t.freed]
    IN  [result |-> IF failAt /= 0 THEN "ERROR_MEMORY_MAP_FAILED"
                    ELSE IF more.result = "SUCCESS" THEN "SUCCESS" ELSE "INCOMPLETE",
         pools |-> t.pools, blocks |-> t.blocks, allocs |-> st.allocs,
         ctx |-> IF failAt /= 0 THEN [IdleCtx EXCEPT !.state = "Ended"]
                 ELSE [c EXCEPT !.state = "PassComplete", !.stats = stats]]

\* vmaEndDefragmentation: finalizes and trims the emptied blocks.
vmaEndDefragmentation(c, pl, bl) ==
    LET t == Trim(pl, bl, c.pool)
    IN  [pools |-> t.pools, blocks |-> t.blocks,
         stats |-> [c.stats EXCEPT
                       !.bytesFreed = @ + t.freed * BlockSize,
                       !.deviceMemoryBlocksFreed = @ + t.freed],
         ctx |-> [IdleCtx EXCEPT !.state = "Ended"]]

\* ======================================= the binding: defragmentation
\* impl TryFrom<u32> for DefragmentationMoveOperation
try_from(value) ==
    IF value = OP_COPY THEN Ok("try_from", "Copy")
    ELSE IF value = OP_IGNORE THEN Ok("try_from", "Ignore")
    ELSE IF value = OP_DESTROY THEN Ok("try_from", "Destroy")
    ELSE Err("try_from", value)

\* Fault variant of the cast: Copy takes the value of Ignore.
as_u32_CopyAsIgnore(operation) ==
    IF operation = "Copy" THEN OP_IGNORE
    ELSE IF operation = "Ignore" THEN OP_IGNORE
    ELSE OP_DESTROY

\* Fault variant of the cast: Destroy takes the value of Ignore.
as_u32_DestroyAsIgnore(operation) ==
    IF operation = "Copy" THEN OP_COPY
    ELSE OP_IGNORE

\* `operation as ffi::VmaDefragmentationMoveOperation` (#[repr(u32)])
as_u32(operation) ==
    IF operation = "Copy" THEN OP_COPY
    ELSE IF operation = "Ignore" THEN OP_IGNORE
    ELSE OP_DESTROY

\* impl Default for DefragmentationMoveOperation
DefragmentationMoveOperation_default == "Ignore"

Operations == {"Copy", "Ignore", "Destroy"}

\* Fault variant of the VmaDefragmentationInfo: the two budgets exchanged.
DefragmentationInfoToFfi_BudgetsSwapped(info) ==
    [pool |-> IF info.pool = None THEN NullHandle ELSE info.pool[1],
     maxBytesPerPass |-> info.max_allocations_per_pass,
     maxAllocationsPerPass |-> info.max_bytes_per_pass]

\* Allocator::begin_defragmentation: the VmaDefragmentationInfo it passes on.
DefragmentationInfoToFfi(info) ==
    [pool |-> IF info.pool = None THEN NullHandle ELSE info.pool[1],
     maxBytesPerPass |-> info.max_bytes_per_pass,
     maxAllocationsPerPass |-> info.max_allocations_per_pass]

\* Allocator::begin_defragmentation
begin_defragmentation(info) ==
    LET ffi_info == DefragmentationInfoToFfi(info)
    IN  /\ ctx.state \in {"Idle", "Ended"}
        /\ pools[ffi_info.pool].live
        /\ \E r \in {vmaBeginDefragmentation(IdleCtx, pools, ffi_info)} :
           LET result == ffi_to_result(r.result)
           IN  /\ ctx' = IF result = "SUCCESS" THEN [r.ctx EXCEPT !.info = info] ELSE ctx
               /\ context' = IF result = "SUCCESS" THEN "ctx" ELSE context
               /\ ret' = MatchSuccess("begin_defragmentation", result, "ctx")
               /\ UNCHANGED threads
               /\ ffi' = Native("vmaBeginDefragmentation", r.result)
        /\ runLog' = [NoRun EXCEPT
                         !.pool = ffi_info.pool,
                         !.bytesAtBegin = SizeSum(allocs, LiveIn(allocs, ffi_info.pool)),
                         !.blocksAtBegin = Len(pools[ffi_info.pool].blocks),
                         !.emptyAtBegin = Cardinality(
                             {b \in BlockIds : /\ blocks[b].live
                                               /\ blocks[b].pool = ffi_info.pool
                                               /\ LiveIn(allocs, ffi_info.pool)
                                                      \cap HandlesOn(allocs, b) = {}})]
        /\ UNCHANGED allocator
        /\ trace' = Untraced(trace)
        /\ passLog' = NoLog
        /\ UNCHANGED <<pools, blocks, allocs, engineMoves, passInfo, mapCalls, born>>

\* Fault variant of the move list: only the first move is read back.
BeginPassResult_FirstMoveOnly(result, pMoves) ==
    IF result = "INCOMPLETE"
    THEN Ok("begin_defragmentation_pass",
            [kind |-> "Incomplete",
             moves |-> [i \in 1..1 |->
                  [operation |-> try_from(pMoves[i].operation).value,
                   src_allocation |-> pMoves[i].srcAllocation,
                   dst_tmp_allocation |-> pMoves[i].dstTmpAllocation]]])
    ELSE IF result = "SUCCESS"
    THEN Ok("begin_defragmentation_pass", [kind |-> "Success", moves |-> <<>>])
    ELSE Err("begin_defragmentation_pass", result)

\* Allocator::begin_defragmentation_pass: the match on the engine's result.
BeginPassResult(result, pMoves) ==
    IF result = "INCOMPLETE"
    THEN Ok("begin_defragmentation_pass",
            [kind |-> "Incomplete",
             moves |-> [i \in 1..Len(pMoves) |->
                  [operation |-> try_from(pMoves[i].operation).value,
                   src_allocation |-> pMoves[i].srcAllocation,
                   dst_tmp_allocation |-> pMoves[i].dstTmpAllocation]]])
    ELSE IF result = "SUCCESS"
    THEN Ok("begin_defragmentation_pass", [kind |-> "Success", moves |-> <<>>])
    ELSE Err("begin_defragmentation_pass", result)

\* Allocator::begin_defragmentation_pass
begin_defragmentation_pass ==
    /\ context /= "null"
    /\ ctx.state \in {"Began", "PassComplete"}
    /\ \E r \in {vmaBeginDefragmentationPass(ctx, pools, blocks, allocs)} :
       LET res == BeginPassResult(ffi_to_result(r.result), r.pMoves)
       IN  /\ blocks' = r.blocks
           /\ allocs' = r.allocs
           /\ engineMoves' = r.pMoves
           /\ ctx' = [ctx EXCEPT !.state = IF r.result = "INCOMPLETE"
                                           THEN "PassActive" ELSE @]
           /\ passInfo' = IF res.ok /\ res.value.kind = "Incomplete"
                          THEN res.value.moves ELSE passInfo
           /\ ret' = res
           /\ UNCHANGED threads
           /\ ffi' = Native("vmaBeginDefragmentationPass", r.result)
    /\ UNCHANGED allocator
    /\ trace' = Untraced(trace)
    /\ passLog' = NoLog
    /\ UNCHANGED <<pools, context, mapCalls, born, runLog>>

\* What reading a released context can hand back to the binding.
ReleasedContextResults == {"SUCCESS", "INCOMPLETE", "ERROR_UNKNOWN"}

\* Allocator::begin_defragmentation_pass on a context end_defragmentation has
\* released: end_defragmentation takes `&mut` and leaves context.internal set, the
\* binding passes it on unchecked, and the engine reads released memory; any
\* result may come back (an INCOMPLETE one with a move count of zero here).
begin_defragmentation_pass_released(result) ==
    /\ context /= "null"
    /\ ctx.state = "Ended"
    /\ LET res == BeginPassResult(ffi_to_result(result), <<>>)
       IN  /\ passInfo' = IF res.ok /\ res.value.kind = "Incomplete"
                          THEN res.value.moves ELSE passInfo
           /\ ret' = res
           /\ UNCHANGED threads
           /\ ffi' = Native("vmaBeginDefragmentationPass", result)
    /\ UNCHANGED allocator
    /\ trace' = Untraced(trace)
    /\ passLog' = NoLog
    /\ UNCHANGED <<pools, blocks, allocs, ctx, engineMoves, context, mapCalls, born,
                   runLog>>

\* DefragmentationPassMoveInfo::moves_mut: the caller sets a move's operation.
set_operation(i, operation) ==
    /\ ctx.state = "PassActive"
    /\ i \in 1..Len(passInfo)
    /\ passInfo[i].operation /= operation
    /\ operation = "Destroy" => mapCalls[passInfo[i].src_allocation] = 0
    /\ passInfo' = [passInfo EXCEPT ![i].operation = operation]
    /\ ret' = Ok("moves_mut", "unit")
    /\ UNCHANGED threads
    /\ ffi' = <<>>
    /\ UNCHANGED allocator
    /\ trace' = Untraced(trace)
    /\ passLog' = NoLog
    /\ UNCHANGED <<pools, blocks, allocs, ctx, engineMoves, context, mapCalls, born,
                   runLog>>

\* Fault variant of the write loop: pMoves keeps the engine's operations.
WriteOperations_Skipped(pMoves, moves) == pMoves

\* Allocator::end_defragmentation_pass: the caller's operations written into pMoves.
WriteOperations(pMoves, moves) ==
    [i \in 1..Len(pMoves) |->
        IF i <= Len(moves)
        THEN [pMoves[i] EXCEPT !.operation = as_u32(moves[i].operation)]
        ELSE pMoves[i]]

\* Fault variant of the returned value: a native error is reported as more moves
\* being possible.
EndPassResult_ErrorAsMore(result) ==
    Ok("end_defragmentation_pass", result = "SUCCESS")

\* Fault variant of the returned value: true on INCOMPLETE.
EndPassResult_Inverted(result) ==
    IF ~(result = "SUCCESS" \/ result = "INCOMPLETE")
    THEN Err("end_defragmentation_pass", result)
    ELSE Ok("end_defragmentation_pass", result = "INCOMPLETE")

\* Allocator::end_defragmentation_pass: the value it returns.
EndPassResult(result) ==
    IF ~(result = "SUCCESS" \/ result = "INCOMPLETE")
    THEN Err("end_defragmentation_pass", result)
    ELSE Ok("end_defragmentation_pass", result = "SUCCESS")

\* Allocator::end_defragmentation_pass: on success each entry's src_allocation is
\* read back from pMoves; on error the list is returned as it was.
ReadBack(moves, pMoves, res) ==
    IF res.ok
    THEN [i \in 1..Len(moves) |->
             [moves[i] EXCEPT !.src_allocation = pMoves[i].srcAllocation]]
    ELSE moves

\* Allocator::end_defragmentation_pass
end_defragmentation_pass(failAt) ==
    /\ context /= "null"
    /\ ctx.state = "PassActive"
    /\ failAt \in 0..Len(engineMoves)
    /\ LET pMoves == WriteOperations(engineMoves, passInfo)
       IN  \E r \in {vmaEndDefragmentationPass(ctx, pools, blocks, allocs, pMoves, failAt)} :
           LET res == EndPassResult(ffi_to_result(r.result))
           IN  /\ pools' = r.pools
               /\ blocks' = r.blocks
               /\ allocs' = r.allocs
               /\ ctx' = r.ctx
               /\ UNCHANGED allocator
               /\ trace' = Untraced(trace)
               /\ engineMoves' = <<>>
               \* the caller's move list ends with the pass; passLog keeps what it held
               /\ passInfo' = <<>>
               /\ ret' = res
               /\ UNCHANGED threads
               /\ ffi' = Native("vmaEndDefragmentationPass", r.result)
               /\ passLog' =
                      [list |-> ReadBack(passInfo, pMoves, res),
                       before |-> passInfo,
                       moves |-> [i \in 1..Len(pMoves) |->
                            [operation |-> passInfo[i].operation,
                             committed |-> failAt = 0 \/ i < failAt,
                             src |-> pMoves[i].srcAllocation,
                             dst |-> pMoves[i].dstTmpAllocation,
                             srcBefore |-> allocs[pMoves[i].srcAllocation],
                             dstBefore |-> allocs[pMoves[i].dstTmpAllocation]]],
                       countBefore |-> Cardinality(LiveIn(allocs, ctx.pool) \cap UserHandles),
                       pool |-> ctx.pool,
                       result |-> r.result]
               /\ born' = [h \in UserHandles |->
                              IF r.allocs[h].live THEN born[h] ELSE NoBirth]
               /\ LET copied == {i \in 1..Len(passInfo) :
                                     /\ passInfo[i].operation = "Copy"
                                     /\ (failAt = 0 \/ i < failAt)}
                  IN  runLog' = [runLog EXCEPT
                          !.copies = @ + Cardinality(copied),
                          !.allCopy = @ /\ Cardinality(copied) = Len(passInfo),
                          !.copiedBytes = @ + SizeSum(allocs,
                              {passInfo[i].src_allocation : i \in copied})]
    /\ UNCHANGED <<context, mapCalls>>

\* Fault variant of the statistics: the two byte counts exchanged.
DefragmentationStatsFromFfi_BytesSwapped(ffi_stats) ==
    [bytes_moved |-> ffi_stats.bytesFreed,
     bytes_freed |-> ffi_stats.bytesMoved,
     allocations_moved |-> ffi_stats.allocationsMoved,
     device_memory_blocks_freed |-> ffi_stats.deviceMemoryBlocksFreed]

\* Fault variant of the statistics: the two counts exchanged.
DefragmentationStatsFromFfi_CountsSwapped(ffi_stats) ==
    [bytes_moved |-> ffi_stats.bytesMoved,
     bytes_freed |-> ffi_stats.bytesFreed,
     allocations_moved |-> ffi_stats.deviceMemoryBlocksFreed,
     device_memory_blocks_freed |-> ffi_stats.allocationsMoved]

\* Allocator::end_defragmentation: the DefragmentationStats it builds.
DefragmentationStatsFromFfi(ffi_stats) ==
    [bytes_moved |-> ffi_stats.bytesMoved,
     bytes_freed |-> ffi_stats.bytesFreed,
     allocations_moved |-> ffi_stats.allocationsMoved,
     device_memory_blocks_freed |-> ffi_stats.deviceMemoryBlocksFreed]

\* Allocator::end_defragmentation
end_defragmentation ==
    /\ context /= "null"
    /\ ctx.state \in {"Began", "PassComplete"}
    /\ \E r \in {vmaEndDefragmentation(ctx, pools, blocks)} :
           /\ pools' = r.pools
           /\ blocks' = r.blocks
           /\ ctx' = r.ctx
           /\ ret' = Ok("end_defragmentation", DefragmentationStatsFromFfi(r.stats))
           /\ UNCHANGED threads
           /\ ffi' = Native("vmaEndDefragmentation", "void")
    /\ UNCHANGED allocator
    /\ trace' = Untraced(trace)
    /\ passLog' = NoLog
    /\ UNCHANGED <<allocs, engineMoves, context, passInfo, mapCalls, born, runLog>>

\* ------------------------------------------------------- statistics
\* Memory types of the model: that of the default BlockList and those of pools.
MemoryTypes == {DeadPool.memoryTypeIndex} \cup PoolMemoryTypes

\* Sum of two VmaDetailedStatistics.
AddStatistics(x, y) ==
    [blockCount |-> x.blockCount + y.blockCount,
     blockBytes |-> x.blockBytes + y.blockBytes,
     allocationCount |-> x.allocationCount + y.allocationCount,
     allocationBytes |-> x.allocationBytes + y.allocationBytes,
     unusedRangeCount |-> x.unusedRangeCount + y.unusedRangeCount,
     unusedBytes |-> x.unusedBytes + y.unusedBytes]

ZeroStatistics ==
    [blockCount |-> 0, blockBytes |-> 0, allocationCount |-> 0, allocationBytes |-> 0,
     unusedRangeCount |-> 0, unusedBytes |-> 0]

\* The statistics of one native memory block, from the counters it keeps.
BlockStatistics(blk) ==
    [blockCount |-> 1, blockBytes |-> BlockSize,
     allocationCount |-> blk.stat.allocationCount,
     allocationBytes |-> blk.stat.allocationBytes,
     unusedRangeCount |-> blk.stat.unusedRangeCount,
     unusedBytes |-> blk.stat.unusedBytes]

\* The statistics of one dedicated allocation: a memory object of its own, all used.
DedicatedStatistics(a) ==
    [ZeroStatistics EXCEPT !.blockCount = 1, !.blockBytes = a.size,
                           !.allocationCount = 1, !.allocationBytes = a.size]

\* The counters of the blocks B rolled up.
RECURSIVE RollUp(_, _)
RollUp(bl, B) ==
    IF B = {} THEN ZeroStatistics
    ELSE LET b == CHOOSE x \in B : TRUE
         IN  AddStatistics(BlockStatistics(bl[b]), RollUp(bl, B \ {b}))

RECURSIVE RollUpDedicated(_, _)
RollUpDedicated(al, H) ==
    IF H = {} THEN ZeroStatistics
    ELSE LET h == CHOOSE x \in H : TRUE
         IN  AddStatistics(DedicatedStatistics(al[h]), RollUpDedicated(al, H \ {h}))

\* vmaGetPoolStatistics: the counters of the pool's blocks and of the dedicated
\* allocations made in it.
vmaGetPoolStatistics(pl, bl, al, p) ==
    AddStatistics(
        RollUp(bl, {b \in BlockIds : bl[b].live /\ bl[b].pool = p}),
        RollUpDedicated(al, {h \in Handles : /\ al[h].live /\ al[h].dedicated
                                             /\ al[h].pool = p}))

\* vmaCalculateStatistics: per memory type, per heap (one heap) and in total.
vmaCalculateStatistics(pl, bl, al) ==
    LET ofType(t) ==
            AddStatistics(
                RollUp(bl, {b \in BlockIds : /\ bl[b].live
                                             /\ pl[bl[b].pool].memoryTypeIndex = t}),
                RollUpDedicated(al, {h \in Handles : /\ al[h].live /\ al[h].dedicated
                                                     /\ al[h].memoryType = t}))
        all == AddStatistics(
                   RollUp(bl, {b \in BlockIds : bl[b].live}),
                   RollUpDedicated(al, {h \in Handles : al[h].live /\ al[h].dedicated}))
    IN  [memoryType |-> [t \in MemoryTypes |-> ofType(t)],
         memoryHeap |-> <<all>>,
         total |-> all]

\* Fault variant of get_pool_stats: the statistics of the default pool are asked.
get_pool_stats_DefaultPool(pool) ==
    /\ pools[pool].live
    /\ pool /= DefaultPool
    /\ ret' = Ok("get_pool_stats",
                 vmaGetPoolStatistics(pools, blocks, allocs, DefaultPool))
    /\ UNCHANGED threads
    /\ ffi' = Native("vmaGetPoolStatistics", "void")
    /\ trace' = Untraced(trace)
    /\ passLog' = NoLog
    /\ UNCHANGED <<pools, blocks, allocs, ctx, engineMoves, context, passInfo, mapCalls,
                   born, runLog, allocator>>

\* Allocator::get_pool_stats
get_pool_stats(pool) ==
    /\ pools[pool].live
    /\ pool /= DefaultPool
    /\ ret' = Ok("get_pool_stats", vmaGetPoolStatistics(pools, blocks, allocs, pool))
    /\ UNCHANGED threads
    /\ ffi' = Native("vmaGetPoolStatistics", "void")
    /\ trace' = Untraced(trace)
    /\ passLog' = NoLog
    /\ UNCHANGED <<pools, blocks, allocs, ctx, engineMoves, context, passInfo, mapCalls,
                   born, runLog, allocator>>

\* Allocator::calculate_statistics
calculate_statistics ==
    /\ ret' = Ok("calculate_statistics", vmaCalculateStatistics(pools, blocks, allocs))
    /\ UNCHANGED threads
    /\ ffi' = Native("vmaCalculateStatistics", "void")
    /\ trace' = Untraced(trace)
    /\ passLog' = NoLog
    /\ UNCHANGED <<pools, blocks, allocs, ctx, engineMoves, context, passInfo, mapCalls,
                   born, runLog, allocator>>

\* ------------------------------------------------ threads in map / unmap
\* Caller threads that share the allocator (Allocator is Send and Sync).
Threads == {1, 2}

\* A thread outside the allocator. `fault` keeps what the native layer forbids and
\* the thread did: a map of a mapped object, an unmap under another mapping.
IdleThread ==
    [pc |-> "idle", h |-> NullHandle, count |-> 0, fault |-> {}, scope |-> NullHandle,
     contexts |-> <<>>, locks |-> {}, stats |-> ZeroStatistics]

\* Positions at which a thread holds the mutex of its allocation's block.
LockedPcs == {"map_native", "map_write", "unmap_write", "unmap_native"}
LockHeld(b) ==
    \E t \in Threads : threads[t].pc \in LockedPcs /\ allocs[threads[t].h].block = b

\* Threads on block b whose increment / decrement of the block's count is done
\* and whose call has not returned to the caller yet.
Mapping(b) ==
    {t \in Threads : threads[t].pc = "map_return" /\ allocs[threads[t].h].block = b}
Unmapping(b) ==
    {t \in Threads : /\ threads[t].pc \in {"unmap_native", "unmap_return"}
                     /\ allocs[threads[t].h].block = b}
\* Calls of unmap_memory on allocation h that have begun and not returned.
UnmapsBegun(h) ==
    Cardinality({t \in Threads : /\ threads[t].h = h
                                 /\ threads[t].pc \in {"unmap_lock", "unmap_write",
                                                       "unmap_native", "unmap_return"}})

\* The mappings of block b outstanding now: those the callers hold, those made
\* and not yet returned, less those already taken back by a running unmap.
RECURSIVE MapCallsOn(_, _)
MapCallsOn(mc, H) ==
    IF H = {} THEN 0
    ELSE LET h == CHOOSE x \in H : TRUE IN mc[h] + MapCallsOn(mc, H \ {h})

Outstanding(b) ==
    MapCallsOn(mapCalls, HandlesOn(allocs, b) \cap UserHandles)
        + Cardinality(Mapping(b)) - Cardinality(Unmapping(b))

ThreadStep(t, next) ==
    /\ threads' = [threads EXCEPT ![t] = next]
    /\ UNCHANGED <<pools, ctx, engineMoves, context, passInfo, born, runLog, trace,
                   allocator, ffi, passLog>>

\* Allocator::map_memory, the call: the allocation's handle goes to vmaMapMemory.
thread_map_memory(t, allocation) ==
    /\ threads[t].pc = "idle"
    /\ allocs[allocation].live
    /\ mapCalls[allocation] + Cardinality(Mapping(allocs[allocation].block))
           < MaxMapCount
    /\ ThreadStep(t, [threads[t] EXCEPT !.pc = "map_lock", !.h = allocation])
    /\ UNCHANGED <<blocks, allocs, mapCalls, ret>>

\* Fault variant of unmap_memory: returns without calling the engine.
thread_unmap_memory_NotForwarded(t, allocation) ==
    /\ threads[t].pc = "idle"
    /\ allocs[allocation].live
    /\ mapCalls[allocation] - UnmapsBegun(allocation) > 0
    /\ ThreadStep(t, [threads[t] EXCEPT !.pc = "unmap_return", !.h = allocation])
    /\ UNCHANGED <<blocks, allocs, mapCalls, ret>>

\* Allocator::unmap_memory, the call: the allocation's handle goes to
\* vmaUnmapMemory; the caller unmaps only what it has mapped.
thread_unmap_memory(t, allocation) ==
    /\ threads[t].pc = "idle"
    /\ allocs[allocation].live
    /\ mapCalls[allocation] - UnmapsBegun(allocation) > 0
    /\ ThreadStep(t, [threads[t] EXCEPT !.pc = "unmap_lock", !.h = allocation])
    /\ UNCHANGED <<blocks, allocs, mapCalls, ret>>

\* The block's mutex is taken and its count read.
BlockLock(t) ==
    /\ threads[t].pc \in {"map_lock", "unmap_lock"}
    /\ LET b == allocs[threads[t].h].block
       IN  /\ ~LockHeld(b)
           /\ ThreadStep(t, [threads[t] EXCEPT
                  !.count = blocks[b].mapCount,
                  !.pc = IF threads[t].pc = "unmap_lock" THEN "unmap_write"
                         ELSE IF blocks[b].mapCount = 0 THEN "map_native"
                         ELSE "map_write"])
    /\ UNCHANGED <<blocks, allocs, mapCalls, ret>>

\* First mapping of the block: the native map.
BlockMapNative(t) ==
    /\ threads[t].pc = "map_native"
    /\ LET b == allocs[threads[t].h].block
       IN  /\ blocks' = [blocks EXCEPT ![b].mapped = TRUE]
           /\ ThreadStep(t, [threads[t] EXCEPT
                  !.pc = "map_write",
                  !.fault = IF blocks[b].mapped THEN @ \cup {"map of a mapped object"}
                            ELSE @])
    /\ UNCHANGED <<allocs, mapCalls, ret>>

\* The counts of the block and of the allocation go up; the mutex is released.
BlockMapWrite(t) ==
    /\ threads[t].pc = "map_write"
    /\ LET h == threads[t].h
           b == allocs[h].block
       IN  /\ blocks' = [blocks EXCEPT ![b].mapCount = threads[t].count + 1]
           /\ allocs' = [allocs EXCEPT ![h].mapCount = @ + 1]
    /\ ThreadStep(t, [threads[t] EXCEPT !.pc = "map_return"])
    /\ UNCHANGED <<mapCalls, ret>>

\* The counts go down; at zero the native unmap follows, else the mutex is released.
BlockUnmapWrite(t) ==
    /\ threads[t].pc = "unmap_write"
    /\ LET h == threads[t].h
           b == allocs[h].block
       IN  /\ blocks' = [blocks EXCEPT ![b].mapCount = threads[t].count - 1]
           /\ allocs' = [allocs EXCEPT ![h].mapCount = @ - 1]
    /\ ThreadStep(t, [threads[t] EXCEPT
           !.pc = IF threads[t].count - 1 = 0 THEN "unmap_native" ELSE "unmap_return"])
    /\ UNCHANGED <<mapCalls, ret>>

\* Last mapping gone: the native unmap; the mutex is released.
BlockUnmapNative(t) ==
    /\ threads[t].pc = "unmap_native"
    /\ LET b == allocs[threads[t].h].block
       IN  /\ blocks' = [blocks EXCEPT ![b].mapped = FALSE]
           /\ ThreadStep(t, [threads[t] EXCEPT
                  !.pc = "unmap_return",
                  !.fault = IF Outstanding(b) > 0
                            THEN @ \cup {"unmap under a mapping"} ELSE @])
    /\ UNCHANGED <<allocs, mapCalls, ret>>

\* Allocator::map_memory, the match on the result: Ok with the mapped pointer.
thread_map_return(t) ==
    /\ threads[t].pc = "map_return"
    /\ mapCalls' = [mapCalls EXCEPT ![threads[t].h] = @ + 1]
    /\ ret' = MatchSuccess("map_memory", ffi_to_result("SUCCESS"), TRUE)
    /\ ThreadStep(t, [IdleThread EXCEPT !.fault = threads[t].fault])
    /\ UNCHANGED <<blocks, allocs>>

\* Allocator::unmap_memory returns.
thread_unmap_return(t) ==
    /\ threads[t].pc = "unmap_return"
    /\ mapCalls' = [mapCalls EXCEPT ![threads[t].h] = @ - 1]
    /\ ret' = Ok("unmap_memory", "unit")
    /\ ThreadStep(t, [IdleThread EXCEPT !.fault = threads[t].fault])
    /\ UNCHANGED <<blocks, allocs>>

\* ------------------------------------ threads in begin / end_defragmentation
\* begin_defragmentation's warning: the mutexes of the BlockLists under an open
\* context are locked, so another begin over them stalls on another thread and
\* deadlocks on the same thread. The contexts open on BlockList p, by holder.
ContextsOn(p) ==
    {<<t, i>> \in Threads \X (1..Cardinality(PoolIds)) :
        i <= Len(threads[t].contexts) /\ threads[t].contexts[i].pool = p}

\* Fault variant of begin_defragmentation: a context is handed out with no call
\* of the engine.
thread_begin_defragmentation_NotForwarded(t, info) ==
    LET ffi_info == DefragmentationInfoToFfi(info)
    IN  /\ threads[t].pc = "idle"
        /\ Len(threads[t].contexts) < Cardinality(PoolIds)
        /\ pools[ffi_info.pool].live
        /\ ThreadStep(t, [threads[t] EXCEPT
               !.contexts = Append(@, [IdleCtx EXCEPT !.state = "Began",
                                                     !.pool = ffi_info.pool])])
        /\ UNCHANGED <<blocks, allocs, mapCalls, ret>>

\* Allocator::begin_defragmentation, the call: the scope goes to
\* vmaBeginDefragmentation, which waits for the mutex of its BlockList.
thread_begin_defragmentation(t, info) ==
    LET ffi_info == DefragmentationInfoToFfi(info)
    IN  /\ threads[t].pc = "idle"
        /\ Len(threads[t].contexts) < Cardinality(PoolIds)
        /\ pools[ffi_info.pool].live
        /\ ThreadStep(t, [threads[t] EXCEPT !.pc = "begin_lock",
                                            !.scope = ffi_info.pool])
        /\ UNCHANGED <<blocks, allocs, mapCalls, ret>>

\* Allocator::begin_defragmentation, the return: the engine got the mutex and
\* opened its context; the match on its result hands the context out.
thread_begin_return(t) ==
    /\ threads[t].pc = "begin_lock"
    /\ ContextsOn(threads[t].scope) = {}
    /\ \E r \in {vmaBeginDefragmentation(IdleCtx, pools,
                    [pool |-> threads[t].scope, maxBytesPerPass |-> 0,
                     maxAllocationsPerPass |-> 0])} :
       LET result == ffi_to_result(r.result)
       IN  /\ threads' = [threads EXCEPT ![t] =
                  [@ EXCEPT !.pc = "idle", !.scope = NullHandle,
                            !.contexts = IF result = "SUCCESS" THEN Append(@, r.ctx)
                                         ELSE @]]
           /\ ret' = MatchSuccess("begin_defragmentation", result, "ctx")
           /\ ffi' = Native("vmaBeginDefragmentation", r.result)
    /\ UNCHANGED <<pools, blocks, allocs, ctx, engineMoves, context, passInfo,
                   mapCalls, born, runLog, trace, allocator, passLog>>

\* Allocator::end_defragmentation on the i-th context a thread holds: the engine
\* finalizes it and lets the mutex go.
thread_end_defragmentation(t, i) ==
    /\ threads[t].pc = "idle"
    /\ i \in 1..Len(threads[t].contexts)
    /\ \E r \in {vmaEndDefragmentation(threads[t].contexts[i], pools, blocks)} :
           /\ pools' = r.pools
           /\ blocks' = r.blocks
           /\ ret' = Ok("end_defragmentation", DefragmentationStatsFromFfi(r.stats))
           /\ ffi' = Native("vmaEndDefragmentation", "void")
    /\ threads' = [threads EXCEPT ![t].contexts = RemoveAt(@, i)]
    /\ UNCHANGED <<allocs, ctx, engineMoves, context, passInfo, mapCalls, born,
                   runLog, trace, allocator, passLog>>


\* ---------------------------------------------- threads and BlockList locks
\* The ledger of each BlockList is guarded by a mutex of that BlockList. A thread
\* waits for the mutex of threads[t].scope at these positions and holds the
\* mutexes in threads[t].locks.
WaitPcs == {"allocate_lock", "free_lock", "statistics_lock"}

ListLockHeld(p) == \E t \in Threads : p \in threads[t].locks

\* The BlockList walked after p by an operation over all of them; none after the last.
NextList(p) == {q \in PoolIds : q > p /\ pools[q].live}

\* Allocator::allocate_memory, the call: the request goes to vmaAllocateMemory,
\* which waits for the mutex of the BlockList it is made in.
thread_allocate_memory(t, size, allocation_info) ==
    LET create_info == allocation_create_info_to_ffi(allocation_info)
    IN  /\ threads[t].pc = "idle"
        /\ pools[create_info.pool].live
        /\ ThreadStep(t, [threads[t] EXCEPT !.pc = "allocate_lock",
                                            !.scope = create_info.pool,
                                            !.count = size])
        /\ UNCHANGED <<blocks, allocs, mapCalls, ret>>

\* Allocator::free_memory, the call: vmaFreeMemory waits for the mutex of the
\* allocation's BlockList.
thread_free_memory(t, allocation) ==
    /\ threads[t].pc = "idle"
    /\ allocs[allocation].live
    /\ \A u \in Threads : threads[u].h /= allocation
    /\ ThreadStep(t, [threads[t] EXCEPT !.pc = "free_lock",
                                        !.scope = allocs[allocation].pool,
                                        !.h = allocation])
    /\ UNCHANGED <<blocks, allocs, mapCalls, ret>>

\* Allocator::calculate_statistics, the call: vmaCalculateStatistics starts its
\* walk at the default BlockList.
thread_calculate_statistics(t) ==
    /\ threads[t].pc = "idle"
    /\ ThreadStep(t, [threads[t] EXCEPT !.pc = "statistics_lock",
                                        !.scope = DefaultPool,
                                        !.stats = ZeroStatistics])
    /\ UNCHANGED <<blocks, allocs, mapCalls, ret>>

\* A waiting thread gets the mutex of its BlockList.
ListLock(t) ==
    /\ threads[t].pc \in WaitPcs
    /\ ~ListLockHeld(threads[t].scope)
    /\ ThreadStep(t, [threads[t] EXCEPT
           !.pc = IF @ = "allocate_lock" THEN "allocate_locked"
                  ELSE IF @ = "free_lock" THEN "free_locked"
                  ELSE "statistics_locked",
           !.locks = @ \cup {threads[t].scope}])
    /\ UNCHANGED <<blocks, allocs, mapCalls, ret>>

\* vmaAllocateMemory under the mutex; the mutex is let go and the call returns.
ListAllocate(t) ==
    LET free == {h \in UserHandles : ~allocs[h].live}
    IN  /\ threads[t].pc = "allocate_locked"
        /\ free /= {}
        /\ \E r \in {vmaAllocateMemory(pools, blocks, allocs, LowestOf(free),
                        threads[t].scope, threads[t].count, 1, "MinOffset",
                        [mapped |-> FALSE, neverAllocate |-> FALSE,
                         strategy |-> "MinOffset"], TRUE, allocator.heap)} :
           LET result == ffi_to_result(r.result)
           IN  /\ pools' = r.pools
               /\ blocks' = r.blocks
               /\ allocs' = r.allocs
               /\ ret' = MatchSuccess("allocate_memory", result, r.allocation)
               /\ ffi' = Native("vmaAllocateMemory", r.result)
               /\ born' = IF result = "SUCCESS"
                          THEN [born EXCEPT ![r.allocation] =
                                   [size |-> r.allocs[r.allocation].size,
                                    memoryType |-> r.allocs[r.allocation].memoryType]]
                          ELSE born
        /\ threads' = [threads EXCEPT ![t] = IdleThread]
        /\ trace' = Untraced(trace)
        /\ passLog' = NoLog
        /\ runLog' = NoRun
        /\ UNCHANGED <<ctx, engineMoves, context, passInfo, mapCalls, allocator>>

\* vmaFreeMemory under the mutex; the mutex is let go and the call returns.
ListFree(t) ==
    /\ threads[t].pc = "free_locked"
    /\ \E r \in {vmaFreeMemory(pools, blocks, allocs, threads[t].h, FALSE)} :
           /\ pools' = r.pools
           /\ blocks' = r.blocks
           /\ allocs' = r.allocs
    /\ ret' = Ok("free_memory", "unit")
    /\ ffi' = Native("vmaFreeMemory", "void")
    /\ born' = [born EXCEPT ![threads[t].h] = NoBirth]
    /\ threads' = [threads EXCEPT ![t] = IdleThread]
    /\ trace' = Untraced(trace)
    /\ passLog' = NoLog
    /\ runLog' = NoRun
    /\ UNCHANGED <<ctx, engineMoves, context, passInfo, mapCalls, allocator>>

\* Fault variant of the walk: the mutex of a BlockList is kept while the next
\* BlockList is waited for.
ListStatistics_LockKept(t) ==
    LET sum == AddStatistics(threads[t].stats,
                   vmaGetPoolStatistics(pools, blocks, allocs, threads[t].scope))
        next == NextList(threads[t].scope)
    IN  /\ threads[t].pc = "statistics_locked"
        /\ threads' = [threads EXCEPT ![t] =
               IF next = {} THEN IdleThread
               ELSE [@ EXCEPT !.pc = "statistics_lock", !.scope = LowestOf(next),
                              !.stats = sum]]
        /\ ret' = IF next = {} THEN Ok("calculate_statistics", [total |-> sum]) ELSE ret
        /\ ffi' = IF next = {} THEN Native("vmaCalculateStatistics", "void") ELSE ffi
        /\ UNCHANGED <<pools, blocks, allocs, ctx, engineMoves, context, passInfo,
                       mapCalls, born, runLog, trace, allocator, passLog>>

\* vmaCalculateStatistics at one BlockList: its counters are added under its
\* mutex, the mutex is let go, and the walk goes on to the next BlockList or
\* the call returns the sum.
ListStatistics(t) ==
    LET sum == AddStatistics(threads[t].stats,
                   vmaGetPoolStatistics(pools, blocks, allocs, threads[t].scope))
        next == NextList(threads[t].scope)
    IN  /\ threads[t].pc = "statistics_locked"
        /\ threads' = [threads EXCEPT ![t] =
               IF next = {} THEN IdleThread
               ELSE [@ EXCEPT !.pc = "statistics_lock", !.scope = LowestOf(next),
                              !.stats = sum, !.locks = @ \ {threads[t].scope}]]
        /\ ret' = IF next = {} THEN Ok("calculate_statistics", [total |-> sum]) ELSE ret
        /\ ffi' = IF next = {} THEN Native("vmaCalculateStatistics", "void") ELSE ffi
        /\ UNCHANGED <<pools, blocks, allocs, ctx, engineMoves, context, passInfo,
                       mapCalls, born, runLog, trace, allocator, passLog>>


\* ------------------------------------------------------------ the system
\* Number of allocations the caller holds.
Held == Cardinality({h \in UserHandles : allocs[h].live})

\* Fault variant of the create info: the heap limits are not passed on.
AllocatorCreateInfoToFfi_NoLimit(create_info) == [pHeapSizeLimit |-> None]

\* Allocator::new: the ffi::VmaAllocatorCreateInfo it fills in.
AllocatorCreateInfoToFfi(create_info) ==
    [pHeapSizeLimit |-> IF create_info.heap_size_limits = None THEN None
                        ELSE create_info.heap_size_limits]

\* Allocator::new: the allocator the engine creates from the create info.
new(create_info) ==
    [info |-> create_info, heap |-> AllocatorCreateInfoToFfi(create_info).pHeapSizeLimit,
     internal |-> "allocator", destroyed |-> 0, calls |-> 0, dropped |-> FALSE]

\* vmaDestroyAllocator: the engine lets go of every memory block it still has.
vmaDestroyAllocator(pl, bl) ==
    [pools |-> [p \in PoolIds |-> [pl[p] EXCEPT !.blocks = <<>>]],
     blocks |-> [b \in BlockIds |-> DeadBlock]]

\* Fault variant of destroy: the handle is left as it was after the native call.
destroy_HandleKept(self) ==
    IF self.internal /= "null"
    THEN [self |-> [self EXCEPT !.destroyed = @ + 1],
          native |-> Native("vmaDestroyAllocator", "void")]
    ELSE [self |-> self, native |-> <<>>]

\* Allocator::destroy: the native allocator is destroyed and the handle set to
\* null, unless the handle is null already.
destroy(self) ==
    IF self.internal /= "null"
    THEN [self |-> [self EXCEPT !.internal = "null", !.destroyed = @ + 1],
          native |-> Native("vmaDestroyAllocator", "void")]
    ELSE [self |-> self, native |-> <<>>]

\* The state after a destroy: the engine's blocks are gone when the native call
\* was made.
Destroyed(r, op, dropped) ==
    /\ allocator' = [r.self EXCEPT !.calls = IF dropped THEN @ ELSE @ + 1,
                                   !.dropped = dropped]
    /\ ffi' = r.native
    /\ ret' = Ok(op, "unit")
    /\ pools' = IF r.native = <<>> THEN pools
                ELSE vmaDestroyAllocator(pools, blocks).pools
    /\ blocks' = IF r.native = <<>> THEN blocks
                 ELSE vmaDestroyAllocator(pools, blocks).blocks
    /\ trace' = Untraced(trace)
    /\ passLog' = NoLog
    /\ runLog' = NoRun
    /\ UNCHANGED <<allocs, ctx, engineMoves, context, passInfo, mapCalls, born, threads>>

\* A caller's call of Allocator::destroy, every allocation freed before it.
call_destroy ==
    /\ ~allocator.dropped
    /\ allocator.calls < MaxDestroys
    /\ \A h \in Handles : ~allocs[h].live
    /\ \E r \in {destroy(allocator)} : Destroyed(r, "destroy", FALSE)

\* impl Drop for Allocator: drop calls destroy.
drop ==
    /\ ~allocator.dropped
    /\ \A h \in Handles : ~allocs[h].live
    /\ \E r \in {destroy(allocator)} : Destroyed(r, "drop", TRUE)

\* Allocator::new: the default BlockList exists and is empty.
InitState ==
    /\ pools = [p \in PoolIds |->
                   IF p = DefaultPool THEN [DeadPool EXCEPT !.live = TRUE] ELSE DeadPool]
    /\ blocks = [b \in BlockIds |-> DeadBlock]
    /\ allocs = [h \in Handles |-> DeadAlloc]
    /\ ctx = IdleCtx
    /\ engineMoves = <<>>
    /\ context = "null"
    /\ passInfo = <<>>
    /\ mapCalls = [h \in UserHandles |-> 0]
    /\ born = [h \in UserHandles |-> NoBirth]
    /\ runLog = NoRun
    /\ passLog = NoLog
    /\ ret = Ok("new", "unit")
    /\ ffi = Native("vmaCreateAllocator", "SUCCESS")
    /\ threads = [t \in Threads |-> IdleThread]

\* Allocator::new with no heap limit.
NoLimits == [heap_size_limits |-> None]

Init == InitState /\ trace = NoTrace /\ allocator = new(NoLimits)

\* The same allocator with the history of allocations and frees kept.
InitFit ==
    InitState /\ trace = [NoTrace EXCEPT !.depth = MaxTrace] /\ allocator = new(NoLimits)

\* The same allocator with the latest allocation or free kept.
InitGrow ==
    InitState /\ trace = [NoTrace EXCEPT !.depth = 1] /\ allocator = new(NoLimits)

\* An allocator created with or without a limit on its heap, the latest call kept.
InitHeap ==
    /\ InitState
    /\ trace = [NoTrace EXCEPT !.depth = 1]
    /\ \E limits \in {None} \cup {Some(l) : l \in HeapLimits} :
           allocator = new([heap_size_limits |-> limits])

\* A caller keeping to the documented contract, allocations not persistently mapped.
Next ==
    \/ \E mn \in PoolMinCounts, mx \in PoolMaxCounts, mt \in PoolMemoryTypes :
           create_pool([memory_type_index |-> mt, flags |-> NoPoolFlags,
                        min_block_count |-> mn,
                        max_block_count |-> mx])
    \/ destroy_pool
    \/ \E rq \in Requests,
          f \in [mapped : {FALSE}, neverAllocate : BOOLEAN, strategy : Strategies],
          pool \in {None, Some(CustomPool)}, nativeOk \in BOOLEAN :
           /\ Held < MaxHeld
           /\ allocate_memory(rq[1], rq[2], [flags |-> f, pool |-> pool], nativeOk)
    \/ \E h \in UserHandles, trimNow \in BOOLEAN : free_memory(h, trimNow)
    \/ \E pool \in {None, Some(CustomPool)}, mb \in PassByteLimits,
          ma \in PassCountLimits :
           begin_defragmentation([pool |-> pool, max_bytes_per_pass |-> mb,
                                  max_allocations_per_pass |-> ma])
    \/ begin_defragmentation_pass
    \/ \E i \in 1..MaxAllocations, op \in Operations : set_operation(i, op)
    \/ \E failAt \in 0..MaxAllocations : end_defragmentation_pass(failAt)
    \/ end_defragmentation

Spec == Init /\ [][Next]_vars

\* A custom pool created with or without LINEAR_ALGORITHM, and defragmentation
\* asked of it and of the default pools.
NextLinear ==
    \/ \E linear \in BOOLEAN, mx \in PoolMaxCounts :
           create_pool([memory_type_index |-> 1, flags |-> [linear |-> linear],
                        min_block_count |-> 0, max_block_count |-> mx])
    \/ destroy_pool
    \/ \E rq \in Requests, pool \in {None, Some(CustomPool)} :
           /\ Held < MaxHeld
           /\ allocate_memory(rq[1], rq[2],
                  [flags |-> [mapped |-> FALSE, neverAllocate |-> FALSE,
                              strategy |-> "MinOffset"], pool |-> pool], TRUE)
    \/ \E h \in UserHandles : free_memory(h, FALSE)
    \/ \E pool \in {None, Some(CustomPool)} :
           begin_defragmentation([pool |-> pool, max_bytes_per_pass |-> 0,
                                  max_allocations_per_pass |-> 0])
    \/ begin_defragmentation_pass
    \/ end_defragmentation_pass(0)
    \/ end_defragmentation

SpecLinear == Init /\ [][NextLinear]_vars

\* Placement: allocations and frees in a row in the default BlockList, with the
\* history of the calls kept.
NextFit ==
    \/ \E rq \in Requests \ {<<2, 2>>},
          f \in [mapped : {FALSE}, neverAllocate : {FALSE},
                 strategy : {"FirstFit", "BestFit"}] :
           /\ Held < MaxHeld
           /\ allocate_memory(rq[1], rq[2], [flags |-> f, pool |-> None], TRUE)
    \/ \E h \in UserHandles, trimNow \in BOOLEAN : free_memory(h, trimNow)

SpecFit == InitFit /\ [][NextFit]_vars

\* Growth: allocations that may or may not add a block, in the default BlockList
\* and in a custom pool, with the latest call kept.
NextGrow ==
    \/ \E mn \in PoolMaxCounts, mx \in PoolMaxCounts :
           create_pool([memory_type_index |-> 1, flags |-> NoPoolFlags,
                        min_block_count |-> mn, max_block_count |-> mx])
    \/ \E rq \in Requests,
          f \in [mapped : {FALSE}, neverAllocate : BOOLEAN, strategy : {"MinOffset"}],
          pool \in {None, Some(CustomPool)}, nativeOk \in BOOLEAN :
           /\ Held < MaxHeld
           /\ allocate_memory(rq[1], rq[2], [flags |-> f, pool |-> pool], nativeOk)
    \/ \E h \in UserHandles, trimNow \in BOOLEAN : free_memory(h, trimNow)

SpecGrow == InitGrow /\ [][NextGrow]_vars

\* Batches: allocations made several at once, in the default BlockList and in a
\* custom pool, with the latest call kept.
NextPages ==
    \/ \E mx \in PoolMaxCounts :
           create_pool([memory_type_index |-> 1, flags |-> NoPoolFlags,
                        min_block_count |-> 0, max_block_count |-> mx])
    \/ \E rq \in Requests, pool \in {None, Some(CustomPool)},
          n \in 1..MaxHeld, okBlocks \in 0..MaxBlocks, trimNow \in BOOLEAN :
           /\ Held + n <= MaxHeld
           /\ allocate_memory_pages(rq[1], rq[2],
                  [flags |-> [mapped |-> FALSE, neverAllocate |-> FALSE,
                              strategy |-> "MinOffset"], pool |-> pool],
                  n, okBlocks, trimNow)
    \/ \E h \in UserHandles, trimNow \in BOOLEAN : free_memory(h, trimNow)

SpecPages == InitGrow /\ [][NextPages]_vars

\* A heap with a limit: pools with and without preallocated blocks, allocations in
\* blocks and dedicated ones, the device granting or refusing native memory.
NextHeap ==
    \/ \E mn \in PoolMaxCounts :
           create_pool([memory_type_index |-> 1, flags |-> NoPoolFlags,
                        min_block_count |-> mn, max_block_count |-> 0])
    \/ destroy_pool
    \/ \E rq \in {r \in Requests : r[2] = 1},
          f \in [mapped : {FALSE}, neverAllocate : {FALSE}, strategy : {"MinOffset"},
                 dedicated : BOOLEAN],
          pool \in {None, Some(CustomPool)}, nativeOk \in BOOLEAN :
           /\ Held < MaxHeld
           /\ allocate_memory(rq[1], rq[2], [flags |-> f, pool |-> pool], nativeOk)
    \/ \E h \in UserHandles, trimNow \in BOOLEAN : free_memory(h, trimNow)

SpecHeap == InitHeap /\ [][NextHeap]_vars

\* Statistics asked at any moment: between allocations and frees in both
\* BlockLists, and before, between and after the passes of a defragmentation.
NextStats ==
    \/ \E mn \in PoolMinCounts :
           create_pool([memory_type_index |-> 1, flags |-> NoPoolFlags,
                        min_block_count |-> mn, max_block_count |-> 0])
    \/ destroy_pool
    \/ \E rq \in {r \in Requests : r[2] = 1}, pool \in {None, Some(CustomPool)} :
           /\ Held < MaxHeld
           /\ allocate_memory(rq[1], rq[2],
                  [flags |-> [mapped |-> FALSE, neverAllocate |-> FALSE,
                              strategy |-> "MinOffset"], pool |-> pool], TRUE)
    \/ \E h \in UserHandles, trimNow \in BOOLEAN : free_memory(h, trimNow)
    \/ \E pool \in {None, Some(CustomPool)} :
           begin_defragmentation([pool |-> pool, max_bytes_per_pass |-> 0,
                                  max_allocations_per_pass |-> 0])
    \/ begin_defragmentation_pass
    \/ \E i \in 1..MaxAllocations, op \in Operations : set_operation(i, op)
    \/ \E failAt \in 0..MaxAllocations : end_defragmentation_pass(failAt)
    \/ end_defragmentation
    \/ calculate_statistics
    \/ get_pool_stats(CustomPool)

SpecStats == Init /\ [][NextStats]_vars

\* Every operation that can fail, with the native layer granting or refusing:
\* pool creation, allocation, mapping, and the calls of a defragmentation, those
\* on a context already ended included.
NextFallible ==
    \/ \E mn \in PoolMinCounts, mx \in PoolMaxCounts :
           create_pool([memory_type_index |-> 1, flags |-> NoPoolFlags,
                        min_block_count |-> mn, max_block_count |-> mx])
    \/ \E rq \in {r \in Requests : r[2] = 1}, nativeOk \in BOOLEAN :
           /\ Held < MaxHeld
           /\ allocate_memory(rq[1], rq[2],
                  [flags |-> [mapped |-> FALSE, neverAllocate |-> FALSE,
                              strategy |-> "MinOffset"], pool |-> None], nativeOk)
    \/ \E h \in UserHandles : free_memory(h, FALSE)
    \/ \E h \in UserHandles, nativeOk \in BOOLEAN : map_memory(h, nativeOk)
    \/ begin_defragmentation([pool |-> None, max_bytes_per_pass |-> 0,
                              max_allocations_per_pass |-> 0])
    \/ begin_defragmentation_pass
    \/ \E result \in ReleasedContextResults : begin_defragmentation_pass_released(result)
    \/ \E i \in 1..MaxAllocations, op \in Operations : set_operation(i, op)
    \/ \E failAt \in 0..MaxAllocations : end_defragmentation_pass(failAt)
    \/ end_defragmentation

SpecFallible == Init /\ [][NextFallible]_vars

\* Two threads mapping and unmapping allocations of the default BlockList, which
\* share a block or lie on two, in every interleaving of their steps.
NextThreads ==
    \/ \E rq \in {r \in Requests : r[2] = 1} :
           /\ Held < MaxHeld
           /\ \A t \in Threads : threads[t].pc = "idle"
           /\ allocate_memory(rq[1], rq[2],
                  [flags |-> [mapped |-> FALSE, neverAllocate |-> FALSE,
                              strategy |-> "MinOffset"], pool |-> None], TRUE)
    \/ \E t \in Threads, h \in UserHandles : thread_map_memory(t, h)
    \/ \E t \in Threads, h \in UserHandles : thread_unmap_memory(t, h)
    \/ \E t \in Threads : BlockLock(t)
    \/ \E t \in Threads : BlockMapNative(t)
    \/ \E t \in Threads : BlockMapWrite(t)
    \/ \E t \in Threads : BlockUnmapWrite(t)
    \/ \E t \in Threads : BlockUnmapNative(t)
    \/ \E t \in Threads : thread_map_return(t)
    \/ \E t \in Threads : thread_unmap_return(t)

SpecThreads == Init /\ [][NextThreads]_vars

\* Two threads that open and end contexts over the default pools and a custom
\* pool; allocations are made and freed while no context is open.
NoContextOpen ==
    \A t \in Threads : threads[t].pc = "idle" /\ threads[t].contexts = <<>>

NextScopes ==
    \/ \E mn \in PoolMinCounts :
           /\ NoContextOpen
           /\ create_pool([memory_type_index |-> 1, flags |-> NoPoolFlags,
                           min_block_count |-> mn, max_block_count |-> 0])
    \/ \E rq \in {r \in Requests : r[2] = 1}, pool \in {None, Some(CustomPool)} :
           /\ Held < MaxHeld
           /\ NoContextOpen
           /\ allocate_memory(rq[1], rq[2],
                  [flags |-> [mapped |-> FALSE, neverAllocate |-> FALSE,
                              strategy |-> "MinOffset"], pool |-> pool], TRUE)
    \/ \E h \in UserHandles : NoContextOpen /\ free_memory(h, FALSE)
    \/ \E t \in Threads, pool \in {None, Some(CustomPool)} :
           thread_begin_defragmentation(t,
               [pool |-> pool, max_bytes_per_pass |-> 0,
                max_allocations_per_pass |-> 0])
    \/ \E t \in Threads : thread_begin_return(t)
    \/ \E t \in Threads, i \in 1..Cardinality(PoolIds) : thread_end_defragmentation(t, i)

SpecScopes == Init /\ [][NextScopes]_vars

\* Two threads that allocate, free and ask for whole-allocator statistics over
\* the default BlockList and a custom pool.
AllIdle == \A t \in Threads : threads[t].pc = "idle"

InFlight == Cardinality({t \in Threads : threads[t].pc \in {"allocate_lock",
                                                            "allocate_locked"}})

NextLocks ==
    \/ /\ AllIdle
       /\ create_pool([memory_type_index |-> 1, flags |-> NoPoolFlags,
                       min_block_count |-> 0, max_block_count |-> 0])
    \/ \E t \in Threads, pool \in {None, Some(CustomPool)} :
           /\ Held + InFlight < MaxHeld
           /\ thread_allocate_memory(t, BlockSize - 1,
                  [flags |-> [mapped |-> FALSE, neverAllocate |-> FALSE,
                              strategy |-> "MinOffset"], pool |-> pool])
    \/ \E t \in Threads, h \in UserHandles : thread_free_memory(t, h)
    \/ \E t \in Threads : thread_calculate_statistics(t)
    \/ \E t \in Threads : ListLock(t)
    \/ \E t \in Threads : ListAllocate(t)
    \/ \E t \in Threads : ListFree(t)
    \/ \E t \in Threads : ListStatistics(t)

SpecLocks == Init /\ [][NextLocks]_vars

\* A caller that allocates and frees, destroys the allocator by hand any number
\* of times and lets it drop; nothing else is called on a destroyed allocator.
NextDestroy ==
    \/ \E rq \in Requests :
           /\ Held < MaxHeld
           /\ allocator.internal /= "null"
           /\ allocate_memory(rq[1], rq[2],
                  [flags |-> [mapped |-> FALSE, neverAllocate |-> FALSE,
                              strategy |-> "MinOffset"], pool |-> None], TRUE)
    \/ \E h \in UserHandles, trimNow \in BOOLEAN :
           allocator.internal /= "null" /\ free_memory(h, trimNow)
    \/ call_destroy
    \/ drop

SpecDestroy == Init /\ [][NextDestroy]_vars

\* Mapping: allocations of the default BlockList, mapped by flag or by map_memory.
NextMap ==
    \/ \E rq \in Requests,
          f \in [mapped : BOOLEAN, neverAllocate : {FALSE}, strategy : {"MinOffset"}],
          nativeOk \in BOOLEAN :
           /\ Held < MaxHeld
           /\ allocate_memory(rq[1], rq[2], [flags |-> f, pool |-> None], nativeOk)
    \/ \E h \in UserHandles, trimNow \in BOOLEAN : free_memory(h, trimNow)
    \/ \E h \in UserHandles, nativeOk \in BOOLEAN : map_memory(h, nativeOk)
    \/ \E h \in UserHandles : unmap_memory(h)

SpecMap == Init /\ [][NextMap]_vars

\* Defragmentation of the default BlockList while its allocations are mapped.
NextMove ==
    \/ \E rq \in Requests,
          f \in [mapped : BOOLEAN, neverAllocate : {FALSE}, strategy : {"MinOffset"}] :
           /\ Held < MaxHeld
           /\ allocate_memory(rq[1], rq[2], [flags |-> f, pool |-> None], TRUE)
    \/ \E h \in UserHandles : free_memory(h, FALSE)
    \/ \E h \in UserHandles : map_memory(h, TRUE)
    \/ \E h \in UserHandles : unmap_memory(h)
    \/ begin_defragmentation([pool |-> None, max_bytes_per_pass |-> 0,
                              max_allocations_per_pass |-> 0])
    \/ begin_defragmentation_pass
    \/ \E i \in 1..MaxAllocations, op \in Operations : set_operation(i, op)
    \/ \E failAt \in 0..MaxAllocations : end_defragmentation_pass(failAt)
    \/ end_defragmentation

SpecMove == Init /\ [][NextMove]_vars

\* Passes with several moves: up to MaxAllocations allocations of the default
\* BlockList, defragmented under every per-pass budget.
NextPass ==
    \/ \E rq \in Requests :
           allocate_memory(rq[1], rq[2],
               [flags |-> [mapped |-> FALSE, neverAllocate |-> FALSE,
                           strategy |-> "MinOffset"], pool |-> None], TRUE)
    \/ \E h \in UserHandles, trimNow \in BOOLEAN : free_memory(h, trimNow)
    \/ \E mb \in PassByteLimits, ma \in PassCountLimits :
           begin_defragmentation([pool |-> None, max_bytes_per_pass |-> mb,
                                  max_allocations_per_pass |-> ma])
    \/ begin_defragmentation_pass
    \/ \E i \in 1..MaxAllocations, op \in Operations : set_operation(i, op)
    \/ \E failAt \in 0..MaxAllocations : end_defragmentation_pass(failAt)
    \/ end_defragmentation

SpecPass == Init /\ [][NextPass]_vars

\* A caller of the safe interface that also reuses a context after ending it.
NextAnyCaller ==
    \/ \E rq \in Requests :
           /\ Held < MaxHeld
           /\ allocate_memory(rq[1], rq[2],
                  [flags |-> [mapped |-> FALSE, neverAllocate |-> FALSE,
                              strategy |-> "MinOffset"], pool |-> None], TRUE)
    \/ \E h \in UserHandles : free_memory(h, FALSE)
    \/ begin_defragmentation([pool |-> None, max_bytes_per_pass |-> 0,
                              max_allocations_per_pass |-> 0])
    \/ begin_defragmentation_pass
    \/ \E result \in ReleasedContextResults : begin_defragmentation_pass_released(result)
    \/ \E i \in 1..MaxAllocations, op \in Operations : set_operation(i, op)
    \/ \E failAt \in 0..MaxAllocations : end_defragmentation_pass(failAt)
    \/ end_defragmentation

SpecAnyCaller == Init /\ [][NextAnyCaller]_vars

\* ================================================================ properties
RECURSIVE SumSizes(_)
SumSizes(R) ==
    IF R = {} THEN 0
    ELSE LET r == CHOOSE x \in R : TRUE IN r.size + SumSizes(R \ {r})

Disjoint(r, q) == r.offset + r.size <= q.offset \/ q.offset + q.size <= r.offset

\* What get_allocation_info reports for handle h.
InfoOf(h) == vmaGetAllocationInfo(blocks, allocs, h)

\* The allocated region of handle h, as the caller reads it.
AllocRegion(h) == Region(get_offset(InfoOf(h)), get_size(InfoOf(h)))

LiveOn(b) == {h \in Handles : allocs[h].live /\ get_device_memory(InfoOf(h)) = b}

\* [o, o+size) of block b is free: inside a free region, or the block is released.
IsFree(b, o, size) ==
    \/ ~blocks[b].live
    \/ \E r \in blocks[b].free : r.offset <= o /\ o + size <= r.offset + r.size

\* C1: in every reachable state, for every Block, the allocated sizes plus the free
\* sizes equal the Block size, no two regions (free or allocated) overlap, every
\* allocation has offset + size <= Block size, and no two live allocations share a
\* (device memory, offset) pair.
C1_BlockLedger ==
    /\ \A b \in BlockIds : blocks[b].live =>
          LET free == blocks[b].free
              used == LiveOn(b)
          IN  /\ SumSizes(free) + SumSizes({[h |-> h, size |-> AllocRegion(h).size] :
                                                h \in used}) = BlockSize
              /\ \A r \in free, q \in free : r /= q => Disjoint(r, q)
              /\ \A h \in used, r \in free : Disjoint(AllocRegion(h), r)
              /\ \A h \in used, g \in used : h /= g => Disjoint(AllocRegion(h), AllocRegion(g))
              /\ \A h \in used :
                     AllocRegion(h).offset + AllocRegion(h).size <= BlockSize
              /\ \A r \in free : r.size > 0 /\ r.offset + r.size <= BlockSize
    /\ \A h \in Handles : allocs[h].live => blocks[allocs[h].block].live
    /\ \A h \in Handles, g \in Handles :
          (h /= g /\ allocs[h].live /\ allocs[g].live) =>
              <<get_device_memory(InfoOf(h)), get_offset(InfoOf(h))>>
                  /= <<get_device_memory(InfoOf(g)), get_offset(InfoOf(g))>>

\* A block of a custom pool holding a caller's allocation, a destination reserved
\* by a running pass and a free region.
C1_Witness ==
    \E b \in BlockIds :
        /\ blocks[b].live
        /\ blocks[b].pool = CustomPool
        /\ blocks[b].free /= {}
        /\ \E h \in LiveOn(b), g \in LiveOn(b) : allocs[h].tmp /\ ~allocs[g].tmp

\* C2: for every Pool, in every state an operation leaves behind,
\* min_block_count <= block count <= max_block_count, 0 meaning no upper bound.
C2_BlockCountWithinLimits ==
    \A p \in PoolIds : pools[p].live =>
        LET n == Len(pools[p].blocks)
        IN  /\ pools[p].info.min_block_count <= n
            /\ pools[p].info.max_block_count = 0 \/ n <= pools[p].info.max_block_count
            /\ n = Cardinality({b \in BlockIds : blocks[b].live /\ blocks[b].pool = p})

\* A pool at its maximum refuses to grow, and keeps its minimum when emptied.
C2_Witness ==
    /\ pools[CustomPool].live
    /\ pools[CustomPool].info.min_block_count = 1
    /\ pools[CustomPool].info.max_block_count = 1
    /\ Len(pools[CustomPool].blocks) = 1
    /\ ret = Err("allocate_memory", "ERROR_OUT_OF_DEVICE_MEMORY")
    /\ LiveIn(allocs, CustomPool) /= {}

RECURSIVE SumOver(_, _)
SumOver(f, S) ==
    IF S = {} THEN 0
    ELSE LET x == CHOOSE y \in S : TRUE IN f[x] + SumOver(f, S \ {x})

\* Successful map_memory calls minus unmap_memory calls on the allocations of block b.
OutstandingMaps(b) == SumOver(mapCalls, LiveOn(b) \cap UserHandles)

\* Live allocations of block b created with AllocationCreateFlags::MAPPED.
PersistentOn(b) == {h \in LiveOn(b) : allocs[h].persistent}

\* C3 as stated: a native memory object is mapped exactly when maps - unmaps > 0.
C3_MappedIffOutstandingMaps ==
    \A b \in BlockIds : blocks[b].live =>
        (blocks[b].mapped <=> OutstandingMaps(b) > 0)

\* C3: a native memory object is mapped exactly when the outstanding map calls
\* (maps - unmaps) plus the live allocations on it created with the MAPPED flag
\* number more than zero; that number is its map_ref_count, so the native map
\* happens when it leaves zero and the native unmap when it returns to zero.
C3_MappedIffReferenced ==
    \A b \in BlockIds : blocks[b].live =>
        /\ blocks[b].mapCount = OutstandingMaps(b) + Cardinality(PersistentOn(b))
        /\ blocks[b].mapped <=> blocks[b].mapCount > 0
        /\ \A h \in LiveOn(b) \cap UserHandles :
              /\ allocs[h].mapCount = mapCalls[h]
              /\ InfoOf(h).pMappedData => blocks[b].mapped

\* Mapped twice, then unmapped once: still mapped, with count 1.
C3_Witness ==
    \E h \in UserHandles :
        /\ allocs[h].live
        /\ ~allocs[h].persistent
        /\ ret = Ok("unmap_memory", "unit")
        /\ mapCalls[h] = 1
        /\ blocks[allocs[h].block].mapped
        /\ blocks[allocs[h].block].mapCount = 1

\* The moves the last end_defragmentation_pass committed with operation op.
Committed(op) ==
    {i \in 1..Len(passLog.moves) :
        passLog.moves[i].committed /\ passLog.moves[i].operation = op}

\* C4: after end_pass commits a Copy move, the source handle is still valid and
\* bound to the block and offset reserved as the temporary destination, the
\* region it occupied before is free, and the temporary destination allocation
\* no longer exists.
C4_CopyRebindsSource ==
    \A i \in Committed("Copy") :
        LET m == passLog.moves[i]
        IN  /\ allocs[m.src].live /\ ~allocs[m.src].tmp
            /\ passLog.list[i].src_allocation = m.src
            /\ get_device_memory(InfoOf(m.src)) = m.dstBefore.block
            /\ get_offset(InfoOf(m.src)) = m.dstBefore.offset
            /\ get_size(InfoOf(m.src)) = m.srcBefore.size
            /\ IsFree(m.srcBefore.block, m.srcBefore.offset, m.srcBefore.size)
            /\ ~allocs[m.dst].live
            /\ blocks[m.dstBefore.block].live
            /\ ~IsFree(m.dstBefore.block, m.dstBefore.offset, m.dstBefore.size)

\* A Copy move committed from one block into another.
C4_Witness ==
    /\ ret.op = "end_defragmentation_pass" /\ ret.ok
    /\ \E i \in Committed("Copy") :
          passLog.moves[i].srcBefore.block /= passLog.moves[i].dstBefore.block

\* C5: after end_pass commits an Ignore move, the region reserved for the
\* temporary destination is free and the source allocation is as it was:
\* same block, offset, size and mapping state.
C5_IgnoreLeavesSource ==
    \A i \in Committed("Ignore") :
        LET m == passLog.moves[i]
        IN  /\ allocs[m.src] = m.srcBefore
            /\ blocks[m.srcBefore.block].live
            /\ ~IsFree(m.srcBefore.block, m.srcBefore.offset, m.srcBefore.size)
            /\ InfoOf(m.src).pMappedData => blocks[m.srcBefore.block].mapped
            /\ allocs[m.src].mapCount = mapCalls[m.src]
            /\ IsFree(m.dstBefore.block, m.dstBefore.offset, m.dstBefore.size)
            /\ ~allocs[m.dst].live

\* An Ignore move committed on a source the caller holds mapped.
C5_Witness ==
    /\ ret.op = "end_defragmentation_pass" /\ ret.ok
    /\ \E i \in Committed("Ignore") :
          /\ mapCalls[passLog.moves[i].src] > 0
          /\ passLog.moves[i].srcBefore.block /= passLog.moves[i].dstBefore.block

\* C6: after end_pass commits a Destroy move, the source region and the reserved
\* destination region are free, the source handle names no allocation, and the
\* scope holds one allocation fewer for each such move.
C6_DestroyFreesBoth ==
    /\ \A i \in Committed("Destroy") :
          LET m == passLog.moves[i]
          IN  /\ ~allocs[m.src].live
              /\ ~allocs[m.dst].live
              /\ IsFree(m.srcBefore.block, m.srcBefore.offset, m.srcBefore.size)
              /\ IsFree(m.dstBefore.block, m.dstBefore.offset, m.dstBefore.size)
    /\ passLog.moves /= <<>> =>
          Cardinality(LiveIn(allocs, passLog.pool) \cap UserHandles)
              = passLog.countBefore - Cardinality(Committed("Destroy"))

\* A pass that committed a Destroy move next to a Copy move.
C6_Witness ==
    /\ ret.op = "end_defragmentation_pass" /\ ret.ok
    /\ Committed("Destroy") /= {}
    /\ Committed("Copy") /= {}

\* C7: every move begin_pass proposes carries operation Copy until the caller
\* changes it, and DefragmentationMoveOperation::default() is Copy.
C7_OperationDefaultsToCopy ==
    /\ (ret.op = "begin_defragmentation_pass" /\ ret.ok) =>
          \A i \in 1..Len(passInfo) : passInfo[i].operation = "Copy"
    /\ (ret.op = "begin_defragmentation_pass" /\ ret.ok) =>
          \A i \in 1..Len(passInfo) :
              passInfo[i].operation = DefragmentationMoveOperation_default

\* C8: end_defragmentation_pass returns Ok(true) exactly when the engine reports
\* SUCCESS (no more moves are possible), Ok(false) exactly when it reports
\* INCOMPLETE (more are possible), and Err carrying any other engine result.
C8_EndPassReportsMore ==
    ret.op = "end_defragmentation_pass" =>
        /\ (ret.ok /\ ret.value = TRUE) <=> passLog.result = "SUCCESS"
        /\ (ret.ok /\ ret.value = FALSE) <=> passLog.result = "INCOMPLETE"
        /\ passLog.result \notin {"SUCCESS", "INCOMPLETE"} =>
              ret = Err("end_defragmentation_pass", passLog.result)

\* A pass that committed a Copy move and left more to move.
C8_Witness ==
    /\ ret = Ok("end_defragmentation_pass", FALSE)
    /\ Committed("Copy") /= {}
    /\ Committed("Ignore") = {}

\* C9: a context only advances Idle -> Began -> (PassActive <-> PassComplete)*
\* -> Ended: begin_pass succeeds only on a begun context with no pass active,
\* end_pass only while a pass is active, a begin_pass returning Success leaves no
\* moves and no reservation, and no pass operation succeeds after end.
C9_PassOpsFollowStateMachine ==
    /\ (ret.op = "begin_defragmentation_pass" /\ ret.ok) =>
          /\ ctx.state \in {"Began", "PassComplete", "PassActive"}
          /\ ctx.state = "PassActive" <=> ret.value.kind = "Incomplete"
          /\ ret.value.kind = "Success" =>
                /\ engineMoves = <<>>
                /\ \A h \in Handles : ~(allocs[h].live /\ allocs[h].tmp)
    /\ (ret.op = "end_defragmentation_pass" /\ ret.ok) => ctx.state = "PassComplete"
    /\ ctx.state \in {"Idle", "Began", "PassActive", "PassComplete", "Ended"}
    /\ ctx.state /= "PassActive" => engineMoves = <<>>

\* Sizes of the allocations the running pass proposes to move.
ProposedBytes ==
    SumSizes({[h |-> passInfo[i].src_allocation,
               size |-> get_size(InfoOf(passInfo[i].src_allocation))] :
                 i \in 1..Len(passInfo)})

C11_SizeAndTypePreserved ==
    /\ \A h \in UserHandles : allocs[h].live =>
          LET info == InfoOf(h)
          IN  /\ get_size(info) = born[h].size
              /\ get_memory_type(info) = born[h].memoryType
              /\ blocks[get_device_memory(info)].live
              /\ blocks[get_device_memory(info)].pool = allocs[h].pool
              /\ pools[allocs[h].pool].memoryTypeIndex = get_memory_type(info)
    /\ \A i \in 1..Len(engineMoves) :
          LET src == InfoOf(engineMoves[i].srcAllocation)
              dst == InfoOf(engineMoves[i].dstTmpAllocation)
          IN  /\ get_size(dst) = get_size(src)
              /\ get_memory_type(dst) = get_memory_type(src)
              /\ get_offset(dst) % allocs[engineMoves[i].srcAllocation].alignment = 0
              /\ blocks[get_device_memory(dst)].pool
                     = allocs[engineMoves[i].srcAllocation].pool

\* An allocation of the custom pool moved to another Block by a committed Copy.
C11_Witness ==
    /\ ret.op = "end_defragmentation_pass" /\ ret.ok
    /\ passLog.pool = CustomPool
    /\ \E i \in Committed("Copy") :
          passLog.moves[i].srcBefore.block /= passLog.moves[i].dstBefore.block

\* Bytes of the allocated regions of the handles H, as the caller reads them.
ScopedBytes(H) == SumSizes({[h |-> h, size |-> get_size(InfoOf(h))] : h \in H})

\* A defragmentation operation has returned and no other operation since.
AfterDefragOp ==
    \/ ctx.state \in {"Began", "PassActive", "PassComplete"}
    \/ ret.op = "end_defragmentation"

\* C12 as stated: after every defragmentation operation (begin, begin_pass,
\* end_pass, end) the allocated regions of the scoped pool sum to no more than
\* they did when begin_defragmentation was called.
C12_AllocatedNeverAboveBegin ==
    AfterDefragOp =>
        ScopedBytes(LiveIn(allocs, runLog.pool)) <= runLog.bytesAtBegin

\* C12: after every defragmentation operation the regions of the caller's
\* allocations in the scoped pool sum to no more than they did at
\* begin_defragmentation; after begin, end_pass and end these are all the
\* allocated regions, and between begin_pass and end_pass the allocated regions
\* exceed them by exactly the temporary destinations of the proposed moves.
C12_HeldNeverAboveBegin ==
    AfterDefragOp =>
        LET all == ScopedBytes(LiveIn(allocs, runLog.pool))
            held == ScopedBytes(LiveIn(allocs, runLog.pool) \cap UserHandles)
        IN  /\ held <= runLog.bytesAtBegin
            /\ ctx.state /= "PassActive" => all = held
            /\ ctx.state = "PassActive" => all = held + ProposedBytes

C12_Witness ==
    /\ ret.op = "end_defragmentation"
    /\ runLog.copies > 0
    /\ runLog.bytesAtBegin > 0
    /\ ScopedBytes(LiveIn(allocs, runLog.pool)) = runLog.bytesAtBegin

\* C13: the statistics end_defragmentation returns are exact: the blocks released
\* between begin and end are counted in device_memory_blocks_freed and their sizes
\* in bytes_freed, the moves committed as Copy in allocations_moved and their
\* sizes in bytes_moved.
C13_StatsExact ==
    (ret.op = "end_defragmentation" /\ ret.ok) =>
        LET released == runLog.blocksAtBegin - Len(pools[runLog.pool].blocks)
        IN  /\ ret.value.device_memory_blocks_freed = released
            /\ ret.value.bytes_freed = released * BlockSize
            /\ ret.value.allocations_moved = runLog.copies
            /\ ret.value.bytes_moved = runLog.copiedBytes

C13_Witness ==
    /\ ret.op = "end_defragmentation" /\ ret.ok
    /\ ret.value.device_memory_blocks_freed > 0
    /\ ret.value.allocations_moved > 1
    /\ ret.value.bytes_moved /= ret.value.bytes_freed

\* Bytes of the caller's allocations on block b.
UserUsed(b) == ScopedBytes(LiveOn(b) \cap UserHandles)

BlocksOf(p) == {b \in BlockIds : blocks[b].live /\ blocks[b].pool = p}

\* C14: a pass moves allocations out of the emptier blocks into blocks with
\* room: every proposed move stays in its block or leaves a block no fuller than
\* the one it goes to, and a pass proposes nothing only when no allocation of an
\* emptier block fits a fuller one; when every proposed move was committed as
\* Copy, at the return of end_defragmentation an empty block remains only in a
\* pool at its min_block_count, and device_memory_blocks_freed counts the blocks
\* released since begin.
C14_EmptiedBlocksReleased ==
    /\ (ret.op = "begin_defragmentation_pass" /\ ret.ok /\ ctx.state = "PassActive") =>
          \A i \in 1..Len(ret.value.moves) :
              LET src == get_device_memory(InfoOf(ret.value.moves[i].src_allocation))
                  dst == get_device_memory(InfoOf(ret.value.moves[i].dst_tmp_allocation))
              IN  src = dst \/ UserUsed(src) <= UserUsed(dst)
    /\ (/\ ret.op = "begin_defragmentation_pass" /\ ret.ok
        /\ ctx.state \in {"Began", "PassComplete"}) =>
          \A h \in LiveIn(allocs, ctx.pool), b \in BlocksOf(ctx.pool) :
              (/\ UserUsed(get_device_memory(InfoOf(h))) < UserUsed(b)
               /\ (ctx.maxBytesPerPass = 0 \/ get_size(InfoOf(h)) <= ctx.maxBytesPerPass))
                  => ~HasFit(blocks[b].free, get_size(InfoOf(h)), allocs[h].alignment)
    /\ (ret.op = "end_defragmentation" /\ ret.ok /\ runLog.allCopy) =>
          LET n == Len(pools[runLog.pool].blocks)
          IN  /\ (\E b \in BlocksOf(runLog.pool) : IsEmpty(blocks[b]))
                     => n <= pools[runLog.pool].info.min_block_count
              /\ ret.value.device_memory_blocks_freed = runLog.blocksAtBegin - n

C14_Witness ==
    /\ ret.op = "end_defragmentation" /\ ret.ok
    /\ runLog.pool = CustomPool
    /\ runLog.allCopy /\ runLog.copies > 0
    /\ runLog.emptyAtBegin = 0
    /\ ret.value.device_memory_blocks_freed > 0

\* C15: begin_defragmentation on a scope naming a pool created with
\* LINEAR_ALGORITHM returns an error of the InvalidArgument class and opens no
\* context, begin_defragmentation on any other scope succeeds, and no allocation
\* of a linear pool is ever a source of a proposed move.
C15_LinearPoolNotDefragmented ==
    /\ ret.op = "begin_defragmentation" =>
          IF pools[runLog.pool].info.flags.linear
          THEN /\ ret = Err("begin_defragmentation", "ERROR_INVALID_ARGUMENT")
               /\ ctx.state \in {"Idle", "Ended"}
          ELSE ret.ok /\ context = "ctx" /\ ctx.state = "Began"
    /\ ctx.state \in {"Began", "PassActive", "PassComplete"} =>
          ~pools[ctx.pool].info.flags.linear
    /\ ctx.state = "PassActive" =>
          \A i \in 1..Len(passInfo) :
              ~pools[allocs[passInfo[i].src_allocation].pool].info.flags.linear

C15_Witness ==
    /\ ret.op = "begin_defragmentation" /\ ~ret.ok
    /\ pools[CustomPool].info.flags.linear
    /\ Cardinality({get_device_memory(InfoOf(h)) : h \in LiveIn(allocs, CustomPool)}) = 2
    /\ context = "null"

\* The latest call of the history.
LastCall == trace.ops[Len(trace.ops)]

\* Call o was an allocation its BlockList could not grow for: NEVER_ALLOCATE was
\* asked, or the pool already had max_block_count blocks.
GrowthBarred(o) ==
    \/ o.flags.neverAllocate
    \/ /\ pools[o.pool].info.max_block_count /= 0
       /\ Len(o.before.list) >= pools[o.pool].info.max_block_count

\* No block of the BlockList had a free region fitting call o.
NoFit(o) ==
    \A i \in 1..Len(o.before.list) :
        ~HasFit(o.before.free[o.before.list[i]], o.size, o.alignment)

\* An allocation that found no fit in a BlockList that could not grow.
RefusedCase ==
    /\ trace.ops /= <<>>
    /\ LastCall.op = "allocate_memory"
    /\ GrowthBarred(LastCall) /\ NoFit(LastCall)

\* C16 as stated: an allocation with no fit in a BlockList that may not grow fails
\* with OutOfPoolMemory and leaves the blocks, their regions and the block count
\* as they were.
C16_RefusedWithOutOfPoolMemory ==
    RefusedCase =>
        /\ ret = Err("allocate_memory", "ERROR_OUT_OF_POOL_MEMORY")
        /\ LastCall.after = LastCall.before

\* C16: an allocation with no fit in a BlockList that may not grow (NEVER_ALLOCATE
\* asked, or max_block_count blocks already there) fails with
\* ERROR_OUT_OF_DEVICE_MEMORY, creates no block, and leaves every block's regions
\* and the block count as they were.
C16_RefusedWithoutGrowth ==
    RefusedCase =>
        /\ ret = Err("allocate_memory", "ERROR_OUT_OF_DEVICE_MEMORY")
        /\ ~LastCall.ok
        /\ LastCall.after = LastCall.before
        /\ Ledger(pools, blocks, LastCall.pool) = LastCall.before

C16_Witness ==
    /\ RefusedCase
    /\ LastCall.pool = CustomPool
    /\ ~LastCall.flags.neverAllocate
    /\ LiveIn(allocs, CustomPool) /= {}
    /\ \E b \in BlockIds : blocks[b].live /\ blocks[b].pool = CustomPool
                             /\ blocks[b].free /= {}

\* The history ends with: allocate A, allocate B of the same size and alignment,
\* free A, allocate C of that size and alignment under FirstFit.
ReuseCase ==
    /\ Len(trace.ops) = MaxTrace
    /\ LET A == trace.ops[MaxTrace - 3]
           B == trace.ops[MaxTrace - 2]
           F == trace.ops[MaxTrace - 1]
           C == trace.ops[MaxTrace]
       IN  /\ A.op = "allocate_memory" /\ A.ok
           /\ B.op = "allocate_memory" /\ B.ok
           /\ B.size = A.size /\ B.alignment = A.alignment
           /\ F.op = "free_memory" /\ F.block = A.block /\ F.offset = A.offset
           /\ C.op = "allocate_memory" /\ C.flags.strategy = "FirstFit"
           /\ C.size = A.size /\ C.alignment = A.alignment

\* C lies where A lay and no block was added for it.
ReusedFreedRegion ==
    LET A == trace.ops[MaxTrace - 3]
        C == trace.ops[MaxTrace]
    IN  /\ C.ok
        /\ C.block = A.block /\ C.offset = A.offset
        /\ C.after.list = C.before.list

RoundTripCase ==
    /\ Len(trace.ops) >= 3
    /\ LET n == Len(trace.ops)
           X == trace.ops[n - 2]
           F == trace.ops[n - 1]
           Y == trace.ops[n]
       IN  /\ X.op = "allocate_memory" /\ X.ok /\ X.flags.strategy = "BestFit"
           /\ F.op = "free_memory" /\ F.block = X.block /\ F.offset = X.offset
           /\ Y.op = "allocate_memory" /\ Y.flags.strategy = "BestFit"
           /\ Y.size = X.size /\ Y.alignment = X.alignment

\* C18 as stated: allocate(S, A) under BestFit, free, allocate(S, A) under BestFit
\* again returns the same block and offset, and the free-region ledger after the
\* free equals the ledger before the first allocate.
C18_RoundTripRestoresLedger ==
    RoundTripCase =>
        LET n == Len(trace.ops)
            X == trace.ops[n - 2]
            F == trace.ops[n - 1]
            Y == trace.ops[n]
        IN  /\ Y.ok /\ Y.block = X.block /\ Y.offset = X.offset
            /\ F.after = X.before

\* C18: allocate(S, A) under BestFit, free, allocate(S, A) under BestFit again:
\* when the free released no block the second allocation returns the same block
\* and offset as the first, and when moreover the first allocation created no
\* block the free-region ledger after the free equals the ledger before the
\* first allocate.
C18_RoundTripOnKeptBlocks ==
    RoundTripCase =>
        LET n == Len(trace.ops)
            X == trace.ops[n - 2]
            F == trace.ops[n - 1]
            Y == trace.ops[n]
            kept == F.after.list = F.before.list
        IN  /\ kept => (Y.ok /\ Y.block = X.block /\ Y.offset = X.offset)
            /\ (kept /\ X.after.list = X.before.list) => F.after = X.before
            /\ F.before = X.after

C18_Witness ==
    /\ RoundTripCase
    /\ LET n == Len(trace.ops)
           X == trace.ops[n - 2]
           F == trace.ops[n - 1]
           Y == trace.ops[n]
       IN  /\ X.after.list = X.before.list
           /\ F.after = X.before
           /\ X.offset > 0
           /\ Y.ok /\ Y.block = X.block /\ Y.offset = X.offset

\* The latest call was a batch allocation.
BatchCase == trace.ops /= <<>> /\ LastCall.op = "allocate_memory_pages"

\* The batch returned exactly the allocations asked for, each newly made with the
\* size, alignment, pool and memory type of the request and paired with its info.
BatchMade ==
    LET o == LastCall
    IN  /\ ret.ok /\ ret.op = "allocate_memory_pages"
        /\ Len(ret.value) = o.count
        /\ \A i, j \in 1..Len(ret.value) :
               i /= j => ret.value[i].allocation /= ret.value[j].allocation
        /\ \A i \in 1..Len(ret.value) :
               LET h == ret.value[i].allocation
                   info == ret.value[i].info
               IN  /\ h /= NullHandle /\ allocs[h].live /\ h \notin o.held
                   /\ info = InfoOf(h)
                   /\ get_size(info) = o.size
                   /\ get_offset(info) % o.alignment = 0
                   /\ allocs[h].pool = o.pool
                   /\ get_memory_type(info) = pools[o.pool].info.memory_type_index
        /\ LiveIn(allocs, o.pool) =
               o.held \cup {ret.value[i].allocation : i \in 1..Len(ret.value)}

\* C19 as stated: a batch either returns its N allocations, all made with the same
\* parameters out of the same pool and memory type, or returns an error and leaves
\* the block regions and the allocations as they were before the call.
C19_BatchAllOrNothing ==
    BatchCase =>
        \/ BatchMade
        \/ /\ ~ret.ok
           /\ LiveIn(allocs, LastCall.pool) = LastCall.held
           /\ LastCall.after = LastCall.before

\* C19: a batch either returns its N allocations, all made with the same
\* parameters out of the same pool and memory type, or returns an error and leaves
\* no allocation of the batch: the allocations are those held before the call,
\* every block that was there and still is has the regions it had, a block added
\* during the call is wholly free and a block released during it was wholly free.
C19_BatchLeavesNoAllocation ==
    BatchCase =>
        \/ BatchMade
        \/ LET o == LastCall
               was == {o.before.list[i] : i \in 1..Len(o.before.list)}
               is == {o.after.list[i] : i \in 1..Len(o.after.list)}
           IN  /\ ret = Err("allocate_memory_pages", o.error)
               /\ LiveIn(allocs, o.pool) = o.held
               /\ \A b \in was \cap is : o.after.free[b] = o.before.free[b]
               /\ \A b \in is \ was : o.after.free[b] = {Region(0, BlockSize)}
               /\ \A b \in was \ is : o.before.free[b] = {Region(0, BlockSize)}
               /\ Ledger(pools, blocks, o.pool) = o.after

C19_Witness ==
    /\ BatchCase
    /\ ~ret.ok
    /\ LastCall.count = 2
    /\ LastCall.after = LastCall.before
    /\ \E b \in BlockIds : HasFit(LastCall.before.free[b], LastCall.size,
                                    LastCall.alignment)

\* ------------------------------------------------------------ C20
\* The limit configured for the heap: AllocatorCreateInfo::heap_size_limits.
HeapLimited == allocator.info.heap_size_limits /= None
HeapLimit == allocator.info.heap_size_limits[1]

\* The latest call was an allocation that needed new native memory (a dedicated
\* allocation, or a new block for a BlockList with no fit that may still grow)
\* which would have taken the heap past its limit.
PastCeilingCase ==
    /\ HeapLimited
    /\ trace.ops /= <<>>
    /\ LastCall.op = "allocate_memory"
    /\ \/ /\ HasFlag(LastCall.flags, "dedicated")
          /\ LastCall.native + LastCall.size > HeapLimit
       \/ /\ ~HasFlag(LastCall.flags, "dedicated")
          /\ NoFit(LastCall) /\ ~GrowthBarred(LastCall)
          /\ LastCall.native + BlockSize > HeapLimit

\* C20: with a limit configured for the heap, the native memory taken from it
\* (the blocks of the default BlockList and of pools, and dedicated allocations)
\* never exceeds the limit; an allocation that needs new native memory past the
\* limit fails with ERROR_OUT_OF_DEVICE_MEMORY and creates nothing, whether or not
\* the device would have granted the memory.
C20_HeapCeilingHeld ==
    /\ HeapLimited => NativeBytes(blocks, allocs) <= HeapLimit
    /\ PastCeilingCase =>
           /\ ret = Err("allocate_memory", "ERROR_OUT_OF_DEVICE_MEMORY")
           /\ ~LastCall.ok
           /\ LastCall.after = LastCall.before
           /\ NativeBytes(blocks, allocs) = LastCall.native

\* A request the device would have granted is refused at the limit while a block
\* and a dedicated allocation are both held.
C20_Witness ==
    /\ PastCeilingCase
    /\ LastCall.nativeOk
    /\ ret = Err("allocate_memory", "ERROR_OUT_OF_DEVICE_MEMORY")
    /\ \E b \in BlockIds : blocks[b].live
    /\ \E h \in UserHandles : allocs[h].live /\ allocs[h].dedicated
    /\ NativeBytes(blocks, allocs) = HeapLimit

\* ------------------------------------------------------------ C21
\* What a walk over block b finds: the allocations placed on it (those reserved
\* for a running pass included) and the regions of its ledger.
WalkBlock(bl, al, b) ==
    [blockCount |-> 1, blockBytes |-> BlockSize,
     allocationCount |-> Cardinality(HandlesOn(al, b)),
     allocationBytes |-> SizeSum(al, HandlesOn(al, b)),
     unusedRangeCount |-> Cardinality(bl[b].free),
     unusedBytes |-> FreeBytes(bl[b].free)]

\* The walk over the blocks B and the dedicated allocations H.
RECURSIVE Walk(_, _, _, _)
Walk(bl, al, B, H) ==
    IF B /= {}
    THEN LET b == CHOOSE x \in B : TRUE
         IN  AddStatistics(WalkBlock(bl, al, b), Walk(bl, al, B \ {b}, H))
    ELSE IF H /= {}
    THEN LET h == CHOOSE x \in H : TRUE
         IN  AddStatistics(DedicatedStatistics(al[h]), Walk(bl, al, B, H \ {h}))
    ELSE ZeroStatistics

LiveBlocks(P) == {b \in BlockIds : blocks[b].live /\ blocks[b].pool \in P}
LiveDedicated(P) ==
    {h \in Handles : allocs[h].live /\ allocs[h].dedicated /\ allocs[h].pool \in P}
PoolsOfType(t) == {p \in PoolIds : pools[p].live /\ pools[p].memoryTypeIndex = t}

\* C21: at every moment the counters each block keeps equal what a walk over its
\* ledger and its allocations computes, and the statistics get_pool_stats and
\* calculate_statistics return (per pool, per memory type, per heap, in total)
\* equal the walk over the blocks they cover.
C21_StatisticsMatchWalk ==
    /\ \A b \in BlockIds :
           blocks[b].live => BlockStatistics(blocks[b]) = WalkBlock(blocks, allocs, b)
    /\ ret.op = "get_pool_stats" =>
           ret.value = Walk(blocks, allocs, LiveBlocks({CustomPool}),
                            LiveDedicated({CustomPool}))
    /\ ret.op = "calculate_statistics" =>
           /\ ret.value.total = Walk(blocks, allocs, LiveBlocks(PoolIds),
                                     LiveDedicated(PoolIds))
           /\ ret.value.memoryHeap = <<ret.value.total>>
           /\ \A t \in MemoryTypes :
                  ret.value.memoryType[t] =
                      Walk(blocks, allocs, LiveBlocks(PoolsOfType(t)),
                           LiveDedicated(PoolsOfType(t)))

\* Statistics of a pool asked between two passes, after a move was committed.
C21_Witness ==
    /\ ret.op = "get_pool_stats"
    /\ ctx.state = "PassComplete"
    /\ ctx.stats.allocationsMoved > 0
    /\ ret.value.allocationCount > 0
    /\ ret.value.unusedRangeCount > 0

\* ------------------------------------------------------------ C22
\* The operations that return a Result made from a native result code.
FallibleOps ==
    {"create_pool", "allocate_memory", "allocate_memory_pages", "map_memory",
     "begin_defragmentation", "begin_defragmentation_pass", "end_defragmentation_pass"}
PassOps == {"begin_defragmentation_pass", "end_defragmentation_pass"}

\* C22: an operation that can fail makes its native call once, returns Ok only
\* when that call reported SUCCESS (SUCCESS or INCOMPLETE for the two pass calls),
\* and otherwise returns Err with the native result code as it came.
C22_ResultFollowsNativeCode ==
    ret.op \in FallibleOps =>
        /\ Len(ffi) = 1
        /\ ret.ok <=> \/ ffi[1].result = "SUCCESS"
                      \/ ret.op \in PassOps /\ ffi[1].result = "INCOMPLETE"
        /\ ~ret.ok => ret.error = ffi[1].result

\* A pass call on an ended context came back with an error, which was returned.
C22_Witness ==
    /\ ret = Err("begin_defragmentation_pass", "ERROR_UNKNOWN")
    /\ ffi = Native("vmaBeginDefragmentationPass", "ERROR_UNKNOWN")
    /\ \E h \in UserHandles : allocs[h].live

\* ------------------------------------------------------------ C23
\* C23: with threads mapping and unmapping allocations that share a block, in
\* every interleaving no thread invokes the native map on an object already
\* mapped or the native unmap while another mapping is outstanding, and outside
\* the block's mutex the block's count equals the outstanding mappings.
C23_MapCountUnderThreads ==
    /\ \A t \in Threads : threads[t].fault = {}
    /\ \A b \in BlockIds :
           blocks[b].live /\ ~LockHeld(b) =>
               /\ blocks[b].mapCount = Outstanding(b)
               /\ blocks[b].mapped <=> blocks[b].mapCount > 0

\* Two threads are inside map and unmap of two allocations of one block at once:
\* one holds the mutex for the native unmap while the other waits to map.
C23_Witness ==
    \E t \in Threads, u \in Threads :
        /\ threads[t].pc = "unmap_native"
        /\ threads[u].pc = "map_lock"
        /\ threads[t].h /= threads[u].h
        /\ allocs[threads[t].h].block = allocs[threads[u].h].block

\* ------------------------------------------------------------ C24
\* The allocation of committed move i was mapped when the pass was ended: by
\* map_memory calls or by the MAPPED flag.
WasMapped(i) ==
    passLog.moves[i].srcBefore.mapCount > 0 \/ passLog.moves[i].srcBefore.persistent

\* C24: an allocation that is mapped when its move is committed as Copy is mapped
\* at its new place afterwards: it is bound to the destination block, that block
\* is mapped, get_mapped_data is not null, its own map count and MAPPED state are
\* as before, and every block's map_ref_count equals the outstanding mappings of
\* the allocations it now holds.
C24_MappingFollowsCopy ==
    /\ \A i \in Committed("Copy") :
           WasMapped(i) =>
               LET m == passLog.moves[i]
               IN  /\ allocs[m.src].live
                   /\ allocs[m.src].block = m.dstBefore.block
                   /\ allocs[m.src].mapCount = m.srcBefore.mapCount
                   /\ allocs[m.src].persistent = m.srcBefore.persistent
                   /\ InfoOf(m.src).pMappedData
                   /\ blocks[m.dstBefore.block].mapped
    /\ Committed("Copy") /= {} =>
           \A b \in BlockIds : blocks[b].live =>
               blocks[b].mapCount = SumOver(mapCalls, LiveOn(b) \cap UserHandles)
                                        + Cardinality({h \in LiveOn(b) :
                                                          allocs[h].persistent})

\* An allocation mapped by map_memory was moved by Copy into another block that
\* held no mapping: its mappings went with it and the block it left has none.
C24_Witness ==
    /\ ret.op = "end_defragmentation_pass" /\ ret.ok
    /\ \E i \in Committed("Copy") :
          LET m == passLog.moves[i]
          IN  /\ m.srcBefore.mapCount > 0
              /\ m.srcBefore.block /= m.dstBefore.block
              /\ ~blocks[m.srcBefore.block].mapped
              /\ blocks[m.dstBefore.block].mapCount = m.srcBefore.mapCount

\* The allocations that share the memory block of allocation h.
Neighbours(h) == LiveOn(get_device_memory(InfoOf(h))) \ {h}

\* The free regions of the block of allocation h that lie before it and that
\* its size and alignment would have fitted in.
SkippedRegions(h) ==
    {r \in blocks[get_device_memory(InfoOf(h))].free :
        /\ r.offset + r.size <= get_offset(InfoOf(h))
        /\ Fits(r, allocs[h].size, allocs[h].alignment)}

\* C25: an allocation made in a pool created with LINEAR_ALGORITHM lies after
\* every other allocation of its block, so it is never placed in a region that
\* was freed before the last allocation; space is used again only once the
\* frees have reached the end of the block.
C25_LinearPlacedAfterLast ==
    (ret.op = "allocate_memory" /\ ret.ok
        /\ pools[allocs[ret.value].pool].info.flags.linear) =>
        \A h \in Neighbours(ret.value) :
            get_offset(InfoOf(h)) + get_size(InfoOf(h)) <= get_offset(InfoOf(ret.value))

\* A linear pool placed an allocation after its last one although a region
\* freed before it was large enough.
C25_Witness ==
    /\ ret.op = "allocate_memory" /\ ret.ok
    /\ pools[allocs[ret.value].pool].info.flags.linear
    /\ Neighbours(ret.value) /= {}
    /\ SkippedRegions(ret.value) /= {}

PassFailed ==
    /\ ffi /= <<>>
    /\ ffi[1].fn = "vmaEndDefragmentationPass"
    /\ ffi[1].result \notin {"SUCCESS", "INCOMPLETE"}

\* C27: when the engine fails a pass with a native error, end_defragmentation_pass
\* returns that error, the context is ended with no pass left to run, every Copy
\* committed before the failure holds (the source is live at its destination and
\* the region it left is free), the sources of the moves not committed stay where
\* they were, and the caller's move list is as it was handed in.
C27_FailedPassAborts ==
    PassFailed =>
        /\ ret = Err("end_defragmentation_pass", ffi[1].result)
        /\ ctx.state = "Ended"
        /\ engineMoves = <<>>
        /\ ~ENABLED begin_defragmentation_pass
        /\ passLog.list = passLog.before
        /\ \A i \in 1..Len(passLog.moves) :
              LET m == passLog.moves[i]
              IN  /\ ~allocs[m.dst].live
                  /\ IF m.committed /\ m.operation = "Copy"
                     THEN /\ allocs[m.src].live
                          /\ get_device_memory(InfoOf(m.src)) = m.dstBefore.block
                          /\ get_offset(InfoOf(m.src)) = m.dstBefore.offset
                          /\ IsFree(m.srcBefore.block, m.srcBefore.offset,
                                    m.srcBefore.size)
                     ELSE ~m.committed =>
                          /\ allocs[m.src].live
                          /\ get_device_memory(InfoOf(m.src)) = m.srcBefore.block
                          /\ get_offset(InfoOf(m.src)) = m.srcBefore.offset

\* A pass of two moves failed at its second move: the first, a Copy, is committed.
C27_Witness ==
    /\ PassFailed
    /\ Len(passLog.moves) > 1
    /\ \E i \in Committed("Copy") : ~passLog.moves[i + 1].committed

\* ------------------------------------------------------------ C28
\* A thread inside a call can take a step.
CanStep(t) ==
    ENABLED (ListLock(t) \/ ListAllocate(t) \/ ListFree(t) \/ ListStatistics(t))

\* C28: a thread holds the mutex of at most one BlockList at a time, also while
\* it walks all BlockLists for the whole-allocator statistics, no two threads
\* hold the mutex of one BlockList, and whenever some thread is inside a call
\* some thread inside a call can go on: allocations, frees and statistics of
\* several threads never wait for each other in a circle.
C28_OneLockNoDeadlock ==
    /\ \A t \in Threads : Cardinality(threads[t].locks) <= 1
    /\ \A t \in Threads, u \in Threads :
           t /= u => threads[t].locks \cap threads[u].locks = {}
    /\ (\E t \in Threads : threads[t].pc /= "idle") =>
           \E t \in Threads : threads[t].pc /= "idle" /\ CanStep(t)

\* A statistics walk waits for the custom pool's mutex, held by an allocation of
\* the other thread, after it has read and let go the default BlockList.
C28_Witness ==
    \E t \in Threads, u \in Threads :
        /\ threads[t].pc = "statistics_lock"
        /\ threads[t].scope = CustomPool
        /\ threads[t].locks = {}
        /\ threads[t].stats.blockCount > 0
        /\ threads[u].pc \in {"allocate_locked", "free_locked"}
        /\ threads[u].locks = {CustomPool}

\* ------------------------------------------------------------ C29
\* C29: while a pass is active the caller's move list has one entry for each of
\* the engine's moves, in the engine's order, whatever operations the caller has
\* set; after end_defragmentation_pass has committed, entry i names the source
\* of engine move i, and that source met the operation the caller had set in
\* entry i: moved to its destination by Copy, left in place by Ignore, freed by
\* Destroy.
C29_OutcomeIsCallersChoice ==
    /\ ctx.state = "PassActive" =>
          /\ Len(passInfo) = Len(engineMoves)
          /\ \A i \in 1..Len(engineMoves) :
                /\ passInfo[i].src_allocation = engineMoves[i].srcAllocation
                /\ passInfo[i].dst_tmp_allocation = engineMoves[i].dstTmpAllocation
    /\ (ret.op = "end_defragmentation_pass" /\ ret.ok) =>
          /\ Len(passLog.list) = Len(passLog.moves)
          /\ \A i \in 1..Len(passLog.moves) :
                LET m == passLog.moves[i]
                    set == passLog.before[i]
                IN  /\ set.src_allocation = m.src
                    /\ passLog.list[i].src_allocation = m.src
                    /\ passLog.list[i].operation = set.operation
                    /\ set.operation = "Copy" =>
                          /\ allocs[m.src].live
                          /\ allocs[m.src].block = m.dstBefore.block
                          /\ allocs[m.src].offset = m.dstBefore.offset
                    /\ set.operation = "Ignore" =>
                          /\ allocs[m.src].live
                          /\ allocs[m.src].block = m.srcBefore.block
                          /\ allocs[m.src].offset = m.srcBefore.offset
                    /\ set.operation = "Destroy" => ~allocs[m.src].live

\* A pass of two moves was committed with two different operations set by the
\* caller, the second of them not the default.
C29_Witness ==
    /\ ret.op = "end_defragmentation_pass" /\ ret.ok
    /\ Len(passLog.moves) > 1
    /\ passLog.before[1].operation /= passLog.before[2].operation
    /\ passLog.before[2].operation /= "Copy"

\* ------------------------------------------------------------ C30
\* C30: the native allocator is never destroyed twice: the handle is null exactly
\* when the one native destroy has been made, which is the case after the first
\* destroy, by call or by drop; a destroy after the first, the one made by drop
\* included, makes no native call and leaves the engine as it was.
C30_DestroyedOnce ==
    /\ allocator.destroyed <= 1
    /\ allocator.internal = "null" <=> allocator.destroyed = 1
    /\ (allocator.calls > 0 \/ allocator.dropped) => allocator.destroyed = 1
    /\ (ret.op = "destroy" /\ allocator.calls > 1) => ffi = <<>>
    /\ (ret.op = "drop" /\ allocator.calls > 0) => ffi = <<>>
    /\ (ret.op \in {"destroy", "drop"} /\ ffi /= <<>>) =>
           /\ ffi = Native("vmaDestroyAllocator", "void")
           /\ \A b \in BlockIds : ~blocks[b].live

\* Allocator::destroy was called twice and the allocator then dropped.
C30_Witness ==
    /\ allocator.dropped
    /\ allocator.calls = MaxDestroys
    /\ allocator.destroyed = 1
    /\ ret.op = "drop"

====
